---- MODULE Spec2Model ----
(***************************************************************************)
(* Model of agent-doc-maker: the parser of Retell agent exports            *)
(* (src/lib/agentParser.ts) and the page that drives it (pages/Index).     *)
(*                                                                         *)
(* Text is a sequence of one-character strings, so that the character      *)
(* level operations of the code (sanitising, truncating, formatting) are   *)
(* computed rather than assumed.  A JavaScript value is a tagged record.   *)
(***************************************************************************)
EXTENDS Integers, Sequences, FiniteSets, TLC

----------------------------------------------------------------------------
(* Bounds of the model *)

\* Number of documents of the aggregation family is governed by the longest
\* `edges` / `next` array an input node carries.
MaxEdges == 2
\* The duration inputs n = 60000 + 3000 * j, j in 0..MaxTieStep, reach the
\* "min" range and its decimal ties.
MaxTieStep == 4

----------------------------------------------------------------------------
(* Literals *)

\* The text of a string literal: its characters, one per element.
T(s) == [i \in 1..Len(s) |-> SubSeq(s, i, i)]

\* The property names parseAgent probes on the parsed JSON.
K ==
    [ agent_id |-> T("agent_id"), id |-> T("id"), agentId |-> T("agentId"),
      agent_name |-> T("agent_name"), name |-> T("name"), agentName |-> T("agentName"),
      description |-> T("description"), version_title |-> T("version_title"),
      desc |-> T("desc"), conversationFlow |-> T("conversationFlow"),
      global_prompt |-> T("global_prompt"), model_choice |-> T("model_choice"),
      model |-> T("model"), model_temperature |-> T("model_temperature"),
      language |-> T("language"), voice_id |-> T("voice_id"),
      voice_speed |-> T("voice_speed"), voice_temperature |-> T("voice_temperature"),
      responsiveness |-> T("responsiveness"),
      interruption_sensitivity |-> T("interruption_sensitivity"),
      ambient_sound |-> T("ambient_sound"), stt_mode |-> T("stt_mode"),
      max_call_duration_ms |-> T("max_call_duration_ms"),
      reminder_trigger_ms |-> T("reminder_trigger_ms"),
      end_call_after_silence_ms |-> T("end_call_after_silence_ms"),
      settings |-> T("settings"), nodes |-> T("nodes"), flow |-> T("flow"),
      steps |-> T("steps"), instruction |-> T("instruction"), text |-> T("text"),
      prompt |-> T("prompt"), instructions |-> T("instructions"),
      content |-> T("content"), else_edge |-> T("else_edge"),
      transition_condition |-> T("transition_condition"), edges |-> T("edges"),
      condition |-> T("condition"), label |-> T("label"),
      destination_node_id |-> T("destination_node_id"),
      targetNodeId |-> T("targetNodeId"), target |-> T("target"),
      next_node |-> T("next_node"), skip_response_edge |-> T("skip_response_edge"),
      next |-> T("next"), trigger |-> T("trigger"), nextNode |-> T("nextNode"),
      node_id |-> T("node_id"), nodeId |-> T("nodeId"), title |-> T("title"),
      type |-> T("type"), node_type |-> T("node_type"), nodeType |-> T("nodeType"),
      tools |-> T("tools"), tool_id |-> T("tool_id"),
      post_call_analysis_data |-> T("post_call_analysis_data"),
      choices |-> T("choices"), examples |-> T("examples") ]

\* The keys parseAgent writes into the settings object.
SK ==
    [ model |-> T("model"), temperature |-> T("temperature"),
      language |-> T("language"), voice |-> T("voice"), voiceSpeed |-> T("voiceSpeed"),
      voiceTemperature |-> T("voiceTemperature"),
      responsiveness |-> T("responsiveness"),
      interruptionSensitivity |-> T("interruptionSensitivity"),
      ambientSound |-> T("ambientSound"), sttMode |-> T("sttMode"),
      maxCallDuration |-> T("maxCallDuration"),
      reminderTrigger |-> T("reminderTrigger"),
      endCallAfterSilence |-> T("endCallAfterSilence") ]

\* The string literals of parseAgent and formatDuration.
L ==
    [ unknown |-> T("unknown"), UnnamedAgent |-> T("Unnamed Agent"),
      default |-> T("default"), Else |-> T("Else"),
      SkipResponse |-> T("Skip Response"), UnnamedNode |-> T("Unnamed Node"),
      UnnamedTool |-> T("Unnamed Tool"), string |-> T("string"),
      ElseColon |-> T("Else: "), node_ |-> T("node_"), ms |-> T("ms"), s |-> T("s"),
      min |-> T(" min") ]

----------------------------------------------------------------------------
(* JavaScript values *)

Undef == [t |-> "undef"]
JNull == [t |-> "null"]
JStr(s) == [t |-> "str", s |-> s]
JNum(n) == [t |-> "num", n |-> n]
\* A number with a fraction, kept by its shortest decimal text
JDec(s) == [t |-> "dec", s |-> s]
JBool(b) == [t |-> "bool", b |-> b]
JArr(a) == [t |-> "arr", a |-> a]
\* An object is the sequence of its own enumerable entries [k, v], in
\* property order, with pairwise distinct keys.
JObj(o) == [t |-> "obj", o |-> o]
KV(k, v) == [k |-> k, v |-> v]

\* The completion of a call that can throw: it returns a value or throws an
\* error of some kind.
Return(v) == [value |-> v]
Throw(kind) == [thrown |-> kind]
TypeError == Throw("TypeError")
SyntaxError == Throw("SyntaxError")
Threw(c) == "thrown" \in DOMAIN c

Nullish(v) == v.t \in {"undef", "null"}

\* ToBoolean, as used by `||`, `if (x)` and `x ? a : b`.
Truthy(v) ==
    CASE v.t = "undef" -> FALSE
      [] v.t = "null" -> FALSE
      [] v.t = "str" -> Len(v.s) > 0
      [] v.t = "num" -> v.n # 0
      [] v.t = "bool" -> v.b
      [] OTHER -> TRUE

\* v.k for a value that is not null or undefined: an own property of an
\* object, undefined otherwise (none of the probed names is a member of a
\* built-in prototype).
Get(v, k) ==
    IF v.t = "obj" /\ \E i \in 1..Len(v.o) : v.o[i].k = k
    THEN v.o[CHOOSE i \in 1..Len(v.o) : v.o[i].k = k].v
    ELSE Undef

\* v?.k
OptGet(v, k) == IF Nullish(v) THEN Undef ELSE Get(v, k)

\* a ?? b, which passes over only null and undefined
OrNullish(a, b) == IF Nullish(a) THEN b ELSE a

\* a || b
Or(a, b) == IF Truthy(a) THEN a ELSE b

----------------------------------------------------------------------------
(* Text *)

Digit(d) == <<"0", "1", "2", "3", "4", "5", "6", "7", "8", "9">>[d + 1]

RECURSIVE NatText(_)
NatText(n) == IF n < 10 THEN <<Digit(n)>> ELSE NatText(n \div 10) \o <<Digit(n % 10)>>

\* Number::toString of an integer
NumText(n) == IF n < 0 THEN <<"-">> \o NatText(0 - n) ELSE NatText(n)

RECURSIVE JoinText(_, _)
\* Array.prototype.join on a sequence of texts
JoinText(texts, sep) ==
    IF Len(texts) = 0 THEN <<>>
    ELSE IF Len(texts) = 1 THEN texts[1]
    ELSE texts[1] \o sep \o JoinText(Tail(texts), sep)

RECURSIVE JsToString(_)
\* JsToString, as applied by a template literal `${v}`
JsToString(v) ==
    CASE v.t = "undef" -> T("undefined")
      [] v.t = "null" -> T("null")
      [] v.t = "str" -> v.s
      [] v.t = "num" -> NumText(v.n)
      [] v.t = "dec" -> v.s
      [] v.t = "bool" -> IF v.b THEN T("true") ELSE T("false")
      [] v.t = "arr" ->
            JoinText([i \in 1..Len(v.a) |->
                        IF Nullish(v.a[i]) THEN <<>> ELSE JsToString(v.a[i])], <<",">>)
      [] OTHER -> T("[object Object]")

----------------------------------------------------------------------------

----------------------------------------------------------------------------
(* formatDuration *)

RECURSIVE DoubleMod(_, _, _)
\* (p * 2^e) mod m, without leaving the 32-bit integers
DoubleMod(p, e, m) == IF e = 0 THEN p % m ELSE DoubleMod((2 * (p % m)) % m, e - 1, m)

RECURSIVE Log2Floor(_, _)
\* the k with 2^k <= p/q < 2^(k+1), for p >= q > 0
Log2Floor(p, q) == IF p < 2 * q THEN 0 ELSE 1 + Log2Floor(p, 2 * q)

\* The sign of fl(p/q) - p/q, where fl(p/q) is the IEEE-754 double that the
\* division p / q of two integers p >= q > 0 yields (53-bit significand,
\* round to nearest, ties to even): the quotient is M / 2^e with
\* M = round(p * 2^e / q) and e = 52 - floor(log2(p/q)).
DivErrSign(p, q) ==
    LET e == 52 - Log2Floor(p, q)
        r2 == DoubleMod(p, e, 2 * q)
        r == r2 % q
    IN  IF r = 0 THEN 0
        ELSE IF 2 * r < q THEN 0 - 1
        ELSE IF 2 * r > q THEN 1
        ELSE IF r2 >= q THEN 1 ELSE 0 - 1

Pow10(f) == IF f = 0 THEN 1 ELSE 10

\* Number.prototype.toFixed(f), f in {0, 1}, of the double p / q, p >= q > 0:
\* the n for which n / 10^f is nearest to the double, the larger n when two
\* are equally near.  The double differs from p/q by less than the distance
\* of p/q to any decimal tie it does not sit on, so the error of the
\* division decides the outcome exactly when 10^f * p / q is a half-integer.
toFixed(p, q, f) ==
    LET s == Pow10(f)
        k == (p * s) \div q
        rem == (p * s) % q
        n == IF 2 * rem < q THEN k
             ELSE IF 2 * rem > q THEN k + 1
             ELSE IF DivErrSign(p, q) < 0 THEN k ELSE k + 1
    IN  IF f = 0 THEN NatText(n)
        ELSE NatText(n \div s) \o <<".">> \o NatText(n % s)

\* formatDuration with its two comparisons inclusive
formatDurationInclusive(ms) ==
    IF ms <= 1000 THEN NumText(ms) \o L.ms
    ELSE IF ms <= 60000 THEN toFixed(ms, 1000, 0) \o L.s
    ELSE toFixed(ms, 60000, 1) \o L.min

\* formatDuration(ms) for an integer ms
formatDuration(ms) ==
    IF ms < 1000 THEN NumText(ms) \o L.ms
    ELSE IF ms < 60000 THEN toFixed(ms, 1000, 0) \o L.s
    ELSE toFixed(ms, 60000, 1) \o L.min

----------------------------------------------------------------------------
(* Objects built by the code *)

IsDigit(c) == c \in {"0", "1", "2", "3", "4", "5", "6", "7", "8", "9"}

DigitVal(c) == CHOOSE d \in 0..9 : Digit(d) = c

RECURSIVE TextNat(_)
TextNat(s) == IF Len(s) = 0 THEN 0
              ELSE 10 * TextNat(SubSeq(s, 1, Len(s) - 1)) + DigitVal(s[Len(s)])

\* An array index: the canonical decimal text of an integer.  An object
\* enumerates such keys first, in ascending order, and its other keys in
\* the order of their creation.
IsIndexKey(k) ==
    /\ Len(k) \in 1..9
    /\ \A i \in 1..Len(k) : IsDigit(k[i])
    /\ (Len(k) > 1 => k[1] # "0")

\* o[k] = v on the entries of an ordinary object
SetProp(o, k, v) ==
    IF \E i \in 1..Len(o) : o[i].k = k
    THEN [i \in 1..Len(o) |-> IF o[i].k = k THEN KV(k, v) ELSE o[i]]
    ELSE IF IsIndexKey(k)
    THEN LET before == {i \in 1..Len(o) :
                            IsIndexKey(o[i].k) /\ TextNat(o[i].k) < TextNat(k)}
             at == Cardinality(before)
         IN  SubSeq(o, 1, at) \o <<KV(k, v)>> \o SubSeq(o, at + 1, Len(o))
    ELSE Append(o, KV(k, v))

\* Object.entries(v) of a value that is not null or undefined
ObjectEntries(v) ==
    CASE v.t = "obj" -> v.o
      [] v.t = "arr" -> [i \in 1..Len(v.a) |-> KV(NatText(i - 1), v.a[i])]
      [] v.t = "str" -> [i \in 1..Len(v.s) |-> KV(NatText(i - 1), JStr(<<v.s[i]>>))]
      [] OTHER -> <<>>

RECURSIVE OrChain(_)
\* a || b || ... || z
OrChain(vs) == IF Len(vs) = 1 THEN vs[1] ELSE Or(vs[1], OrChain(Tail(vs)))

----------------------------------------------------------------------------
(* parseAgent *)

\* JSON.parse(text).  A text is kept as what JSON.parse makes of it: a
\* blank text and a text with a syntax error are rejected, every other text
\* is the value it denotes.
JSONparse(text) == IF text.kind = "json" THEN Return(text.value) ELSE SyntaxError

\* formatDuration of a truthy property value.  Numbers are integers here; a
\* number with a fraction, or a string or an array that converts to a number,
\* is not among the inputs of a duration.
durationText(v) ==
    CASE v.t = "num" -> formatDuration(v.n)
      [] v.t = "bool" -> JsToString(v) \o L.ms
      [] OTHER -> T("NaN") \o L.min

\* if (cond) settings[k] = v
SetIf(cond, o, k, v) == IF cond THEN SetProp(o, k, v) ELSE o

RECURSIVE mergeLegacyMissingOnly(_, _)
\* A merge in which a legacy entry fills only a key that is not yet set
mergeLegacyMissingOnly(settings, entries) ==
    IF Len(entries) = 0 THEN settings
    ELSE LET e == entries[1]
         IN  mergeLegacyMissingOnly(
                IF ~Nullish(e.v) /\ ~(\E i \in 1..Len(settings) : settings[i].k = e.k)
                THEN SetProp(settings, e.k, e.v) ELSE settings,
                Tail(entries))

RECURSIVE mergeLegacy(_, _)
\* Object.entries(json.settings).forEach(...)
mergeLegacy(settings, entries) ==
    IF Len(entries) = 0 THEN settings
    ELSE LET e == entries[1]
         IN  mergeLegacy(IF ~Nullish(e.v) THEN SetProp(settings, e.k, e.v) ELSE settings,
                         Tail(entries))

\* The named probes of parseAgent, in the order of the code.
namedSettings(json) ==
    LET cf == Get(json, K.conversationFlow)
        model == OptGet(OptGet(cf, K.model_choice), K.model)
        temp == OptGet(cf, K.model_temperature)
        s1 == SetIf(Truthy(model), <<>>, SK.model, model)
        s2 == SetIf(temp.t # "undef", s1, SK.temperature, temp)
        s3 == SetIf(Truthy(Get(json, K.language)), s2, SK.language, Get(json, K.language))
        s4 == SetIf(Truthy(Get(json, K.voice_id)), s3, SK.voice, Get(json, K.voice_id))
        s5 == SetIf(Truthy(Get(json, K.voice_speed)), s4, SK.voiceSpeed, Get(json, K.voice_speed))
        s6 == SetIf(Truthy(Get(json, K.voice_temperature)), s5, SK.voiceTemperature,
                    Get(json, K.voice_temperature))
        s7 == SetIf(Truthy(Get(json, K.responsiveness)), s6, SK.responsiveness,
                    Get(json, K.responsiveness))
        s8 == SetIf(Truthy(Get(json, K.interruption_sensitivity)), s7,
                    SK.interruptionSensitivity, Get(json, K.interruption_sensitivity))
        s9 == SetIf(Truthy(Get(json, K.ambient_sound)), s8, SK.ambientSound,
                    Get(json, K.ambient_sound))
        s10 == SetIf(Truthy(Get(json, K.stt_mode)), s9, SK.sttMode, Get(json, K.stt_mode))
        s11 == SetIf(Truthy(Get(json, K.max_call_duration_ms)), s10, SK.maxCallDuration,
                     JStr(durationText(Get(json, K.max_call_duration_ms))))
        s12 == SetIf(Truthy(Get(json, K.reminder_trigger_ms)), s11, SK.reminderTrigger,
                     JStr(durationText(Get(json, K.reminder_trigger_ms))))
    IN  SetIf(Truthy(Get(json, K.end_call_after_silence_ms)), s12, SK.endCallAfterSilence,
              JStr(durationText(Get(json, K.end_call_after_silence_ms))))

\* The settings object of parseAgent: the named probes, then the legacy
\* settings object merged over them.
agentSettings(json) ==
    LET legacy == Get(json, K.settings)
    IN  IF Truthy(legacy) THEN mergeLegacy(namedSettings(json), ObjectEntries(legacy))
        ELSE namedSettings(json)

Edge(condition, targetNodeId) == [condition |-> condition, targetNodeId |-> targetNodeId]

RECURSIVE pushEdges(_, _)
\* node.edges.forEach(...): the edges pushed onto next, or TypeError
pushEdges(next, edges) ==
    IF Len(edges) = 0 THEN Return(next)
    ELSE LET edge == edges[1]
         IN  IF Nullish(edge) THEN TypeError
             ELSE LET condition == OrChain(<<OptGet(Get(edge, K.transition_condition), K.prompt),
                                             Get(edge, K.condition), Get(edge, K.label),
                                             JStr(L.default)>>)
                      targetNodeId == OrChain(<<Get(edge, K.destination_node_id),
                                                Get(edge, K.targetNodeId), Get(edge, K.target),
                                                Get(edge, K.next_node), JStr(<<>>)>>)
                  IN  pushEdges(IF Truthy(targetNodeId)
                                THEN Append(next, Edge(condition, targetNodeId))
                                ELSE next,
                                Tail(edges))

RECURSIVE pushLegacyNext(_, _)
\* node.next.forEach(...): the entries pushed onto next, or TypeError
pushLegacyNext(next, entries) ==
    IF Len(entries) = 0 THEN Return(next)
    ELSE LET n == entries[1]
         IN  IF Nullish(n) THEN TypeError
             ELSE pushLegacyNext(
                    Append(next,
                           Edge(OrChain(<<Get(n, K.condition), Get(n, K.label),
                                          Get(n, K.trigger), JStr(L.default)>>),
                                OrChain(<<Get(n, K.targetNodeId), Get(n, K.target),
                                          Get(n, K.next_node), Get(n, K.nextNode),
                                          JStr(<<>>)>>))),
                    Tail(entries))

\* The edges of node.edges, when it is an array
edgesOf(node) ==
    IF Get(node, K.edges).t = "arr" THEN pushEdges(<<>>, Get(node, K.edges).a)
    ELSE Return(<<>>)

\* The two pushes in the other order: the skip-response edge, then the else edge
pushFixedEdgesSkipFirst(next, node) ==
    LET elseTarget == OptGet(Get(node, K.else_edge), K.destination_node_id)
        skipTarget == OptGet(Get(node, K.skip_response_edge), K.destination_node_id)
    IN  next
        \o (IF Truthy(skipTarget) THEN <<Edge(JStr(L.SkipResponse), skipTarget)>> ELSE <<>>)
        \o (IF Truthy(elseTarget) THEN <<Edge(JStr(L.Else), elseTarget)>> ELSE <<>>)

\* next after the else edge and the skip-response edge are pushed
pushFixedEdges(next, node) ==
    LET elseTarget == OptGet(Get(node, K.else_edge), K.destination_node_id)
        skipTarget == OptGet(Get(node, K.skip_response_edge), K.destination_node_id)
    IN  next
        \o (IF Truthy(elseTarget) THEN <<Edge(JStr(L.Else), elseTarget)>> ELSE <<>>)
        \o (IF Truthy(skipTarget) THEN <<Edge(JStr(L.SkipResponse), skipTarget)>> ELSE <<>>)

\* next with the entries of node.next left out
withLegacyNextIgnored(next, legacy) == Return(next)

\* next after the entries of node.next, when it is an array, are pushed
withLegacyNext(next, legacy) ==
    IF legacy.t = "arr" THEN pushLegacyNext(next, legacy.a) ELSE Return(next)

\* The part of the callback after node.edges.forEach, given its completion
afterEdges(c, node) ==
    IF Threw(c) THEN c
    ELSE withLegacyNext(pushFixedEdges(c.value, node), Get(node, K.next))

\* The next array of one raw node, or TypeError
nodeNext(node) == afterEdges(edgesOf(node), node)

\* The object the callback of rawNodes.map returns, given the completion of
\* building next
agentNode(node, token, next) ==
    IF Threw(next) THEN next
    ELSE LET elsePrompt == OptGet(OptGet(Get(node, K.else_edge), K.transition_condition),
                                  K.prompt)
         IN  Return(
             [id |-> OrChain(<<Get(node, K.id), Get(node, K.node_id), Get(node, K.nodeId),
                               JStr(L.node_ \o token)>>),
              name |-> OrChain(<<Get(node, K.name), Get(node, K.label), Get(node, K.title),
                                 JStr(L.UnnamedNode)>>),
              type |-> OrChain(<<Get(node, K.type), Get(node, K.node_type),
                                 Get(node, K.nodeType), JStr(L.unknown)>>),
              prompt |-> OrChain(<<OptGet(Get(node, K.instruction), K.text),
                                   Get(node, K.prompt), Get(node, K.instructions),
                                   Get(node, K.content), JStr(<<>>)>>),
              conditions |-> IF Truthy(elsePrompt)
                             THEN <<JStr(L.ElseColon \o JsToString(elsePrompt))>>
                             ELSE <<>>,
              next |-> next.value])

\* The callback of rawNodes.map with the random token in the default name
\* as well
mapNodeRandomName(node, token) ==
    IF Nullish(node) \/ Threw(agentNode(node, token, nodeNext(node))) THEN TypeError
    ELSE Return([agentNode(node, token, nodeNext(node)).value EXCEPT
                    !.name = IF @ = JStr(L.UnnamedNode) THEN JStr(L.UnnamedNode \o token) ELSE @])

\* The callback of rawNodes.map: the AgentNode of one raw node, or
\* TypeError.  token is what Math.random().toString(36).substr(2, 9) yields.
mapNode(node, token) ==
    IF Nullish(node) THEN TypeError ELSE agentNode(node, token, nodeNext(node))

\* The callback of rawTools.map
mapTool(tool) ==
    IF Nullish(tool) THEN TypeError
    ELSE Return([id |-> OrChain(<<Get(tool, K.tool_id), Get(tool, K.id), JStr(<<>>)>>),
                 name |-> Or(Get(tool, K.name), JStr(L.UnnamedTool)),
                 type |-> Or(Get(tool, K.type), JStr(L.unknown)),
                 description |-> Or(Get(tool, K.description), JStr(<<>>))])

\* The callback of (json.post_call_analysis_data || []).map
mapAnalysis(item) ==
    IF Nullish(item) THEN TypeError
    ELSE Return([name |-> Or(Get(item, K.name), JStr(<<>>)),
                 description |-> Or(Get(item, K.description), JStr(<<>>)),
                 type |-> Or(Get(item, K.type), JStr(L.string)),
                 choices |-> Get(item, K.choices),
                 examples |-> Get(item, K.examples)])

\* The array of the values of completions, or TypeError when one threw
Collect(cs) ==
    IF \E i \in 1..Len(cs) : Threw(cs[i]) THEN TypeError
    ELSE Return([i \in 1..Len(cs) |-> cs[i].value])

\* Math.random() is called for a node only when node.id, node.node_id and
\* node.nodeId are all falsy: `||` does not evaluate its right side otherwise
drawsRandom(node) ==
    /\ ~Nullish(node)
    /\ ~Truthy(OrChain(<<Get(node, K.id), Get(node, K.node_id), Get(node, K.nodeId)>>))

\* The token the i-th node draws: the callbacks run in the order of the array,
\* so it is the next one of rnd that no earlier node drew
tokenOf(raw, rnd, i) ==
    IF drawsRandom(raw.a[i])
    THEN rnd[Cardinality({j \in 1..i : drawsRandom(raw.a[j])})]
    ELSE <<>>

\* rawNodes.map(...): TypeError when rawNodes has no map method (it is not
\* an array) or when the callback throws on an element; rnd is the sequence
\* of the random tokens drawn.
mapNodes(raw, rnd) ==
    IF raw.t # "arr" THEN TypeError
    ELSE Collect([i \in 1..Len(raw.a) |-> mapNode(raw.a[i], tokenOf(raw, rnd, i))])

\* rawTools.map(...)
mapTools(raw) ==
    IF raw.t # "arr" THEN TypeError
    ELSE Collect([i \in 1..Len(raw.a) |-> mapTool(raw.a[i])])

\* (json.post_call_analysis_data || []).map(...)
mapAnalysisFields(raw) ==
    IF raw.t # "arr" THEN TypeError
    ELSE Collect([i \in 1..Len(raw.a) |-> mapAnalysis(raw.a[i])])

\* The node list with the top-level nodes probed before conversationFlow.nodes
rawNodesTopLevelFirst(json) ==
    OrChain(<<Get(json, K.nodes), OptGet(Get(json, K.conversationFlow), K.nodes),
              OptGet(Get(json, K.flow), K.nodes), Get(json, K.steps), JArr(<<>>)>>)

\* The analysis list without its fallback to an empty array
rawAnalysisNoFallback(json) == Get(json, K.post_call_analysis_data)

\* The node list, the tool list and the analysis list that parseAgent maps
rawNodes(json) ==
    OrChain(<<OptGet(Get(json, K.conversationFlow), K.nodes), Get(json, K.nodes),
              OptGet(Get(json, K.flow), K.nodes), Get(json, K.steps), JArr(<<>>)>>)
rawTools(json) ==
    OrChain(<<OptGet(Get(json, K.conversationFlow), K.tools), Get(json, K.tools), JArr(<<>>)>>)
rawAnalysis(json) == Or(Get(json, K.post_call_analysis_data), JArr(<<>>))

\* The object parseAgent returns, given the completions of its three maps
ParsedAgent(json, nodes, tools, postCallAnalysis) ==
    IF Threw(nodes) \/ Threw(tools) \/ Threw(postCallAnalysis) THEN TypeError
    ELSE Return(
         [id |-> OrChain(<<Get(json, K.agent_id), Get(json, K.id), Get(json, K.agentId),
                           JStr(L.unknown)>>),
          name |-> OrChain(<<Get(json, K.agent_name), Get(json, K.name),
                             Get(json, K.agentName), JStr(L.UnnamedAgent)>>),
          description |-> OrChain(<<Get(json, K.description), Get(json, K.version_title),
                                    Get(json, K.desc), JStr(<<>>)>>),
          settings |-> agentSettings(json),
          nodes |-> nodes.value,
          tools |-> tools.value,
          postCallAnalysis |-> postCallAnalysis.value,
          globalPrompt |-> OrChain(<<OptGet(Get(json, K.conversationFlow), K.global_prompt),
                                     Get(json, K.global_prompt), JStr(<<>>)>>),
          rawJson |-> json])

\* parseAgent keeping, as rawJson, the parsed object without its settings key
afterParseStripped(c, rnd) ==
    IF Threw(c) THEN c
    ELSE IF Nullish(c.value) THEN TypeError
    ELSE ParsedAgent(IF c.value.t = "obj"
                     THEN JObj(SelectSeq(c.value.o, LAMBDA e : e.k # K.settings))
                     ELSE c.value,
                     mapNodes(rawNodes(c.value), rnd),
                     mapTools(rawTools(c.value)),
                     mapAnalysisFields(rawAnalysis(c.value)))

\* parseAgent after JSON.parse, given its completion
afterParse(c, rnd) ==
    IF Threw(c) THEN c
    ELSE IF Nullish(c.value) THEN TypeError
    ELSE ParsedAgent(c.value,
                     mapNodes(rawNodes(c.value), rnd),
                     mapTools(rawTools(c.value)),
                     mapAnalysisFields(rawAnalysis(c.value)))

\* parseAgent(rawJson); rnd[k] is the k-th random token drawn.
\* The completion: the ParsedAgent returned, or the error thrown.
parseAgent(rawJson, rnd) == afterParse(JSONparse(rawJson), rnd)

\* How many times parseAgent(rawJson) can call Math.random: once for each
\* node of the list it maps that has no truthy id
randomDraws(rawJson) ==
    LET c == JSONparse(rawJson)
    IN  IF Threw(c) \/ Nullish(c.value) \/ rawNodes(c.value).t # "arr" THEN 0
        ELSE Cardinality({i \in 1..Len(rawNodes(c.value).a) :
                            drawsRandom(rawNodes(c.value).a[i])})

----------------------------------------------------------------------------
(* Characters *)

\* Characters that a TLA+ string cannot hold are named by their code point.
Backtick == "U+0060"
Arrow == "U+2192"
EmDash == "U+2014"
NL == "\n"
TAB == "\t"

Range(s) == {s[i] : i \in 1..Len(s)}
LowerCase == T("abcdefghijklmnopqrstuvwxyz")
UpperCase == T("ABCDEFGHIJKLMNOPQRSTUVWXYZ")

\* \w and \s of a regular expression
IsWordChar(c) == c \in Range(LowerCase) \cup Range(UpperCase) \cup Range(T("0123456789_"))
IsSpaceChar(c) == c \in {" ", NL, TAB, "\r", "\f"}

\* String.prototype.toUpperCase of one character
toUpperCase(c) ==
    IF c \in Range(LowerCase)
    THEN UpperCase[CHOOSE i \in 1..26 : LowerCase[i] = c]
    ELSE c

\* s.replace(/[^\w\s]/g, '')
stripPunctuation(s) == SelectSeq(s, LAMBDA c : IsWordChar(c) \/ IsSpaceChar(c))

\* s.substring(0, n)
substring0(s, n) == SubSeq(s, 1, IF Len(s) < n THEN Len(s) ELSE n)

\* s.replace('-', '_'): the first hyphen only
hyphenToUnderscore(s) ==
    [i \in 1..Len(s) |-> IF s[i] = "-" /\ (\A j \in 1..(i - 1) : s[j] # "-") THEN "_" ELSE s[i]]

\* s.replace(/-/g, '_')
hyphensToUnderscores(s) == [i \in 1..Len(s) |-> IF s[i] = "-" THEN "_" ELSE s[i]]

\* s.includes(sub)
includes(s, sub) ==
    \E i \in 0..(Len(s) - Len(sub)) : SubSeq(s, i + 1, i + Len(sub)) = sub

RECURSIVE Flatten(_)
\* The concatenation of a sequence of sequences
Flatten(ss) == IF Len(ss) = 0 THEN <<>> ELSE ss[1] \o Flatten(Tail(ss))

----------------------------------------------------------------------------
(* generateMermaid *)

\* The declaration line of one node with the test of the id before that of
\* the type "end"
mermaidNodeLineStartFirst(node) ==
    IF node.name.t # "str" \/ node.id.t # "str" THEN TypeError
    ELSE
    LET sanitizedName == substring0(stripPunctuation(node.name.s), 25)
        sanitizedId == hyphensToUnderscores(node.id.s)
        nodeShape ==
            IF includes(node.id.s, T("start")) THEN T("((") \o sanitizedName \o T("))")
            ELSE IF node.type = JStr(T("end")) THEN T("([") \o sanitizedName \o T("])")
            ELSE IF node.type = JStr(T("branch")) THEN T("{") \o sanitizedName \o T("}")
            ELSE IF node.type = JStr(T("function")) THEN T("[/") \o sanitizedName \o T("/]")
            ELSE T("[") \o sanitizedName \o T("]")
    IN  Return(T("  ") \o sanitizedId \o nodeShape)

\* The declaration line of one node, or TypeError when name or id is not a
\* string and so has no replace method.
mermaidNodeLine(node) ==
    IF node.name.t # "str" \/ node.id.t # "str" THEN TypeError
    ELSE
    LET sanitizedName == substring0(stripPunctuation(node.name.s), 25)
        sanitizedId == hyphensToUnderscores(node.id.s)
        nodeShape ==
            IF node.type = JStr(T("end")) THEN T("([") \o sanitizedName \o T("])")
            ELSE IF includes(node.id.s, T("start")) THEN T("((") \o sanitizedName \o T("))")
            ELSE IF node.type = JStr(T("branch")) THEN T("{") \o sanitizedName \o T("}")
            ELSE IF node.type = JStr(T("function")) THEN T("[/") \o sanitizedName \o T("/]")
            ELSE T("[") \o sanitizedName \o T("]")
    IN  Return(T("  ") \o sanitizedId \o nodeShape)

\* The line of one connection with the condition compared after it is
\* sanitised
mermaidEdgeLinesSanitisedFirst(sanitizedSourceId, connection) ==
    IF ~Truthy(connection.targetNodeId) THEN Return(<<>>)
    ELSE IF connection.targetNodeId.t # "str" \/ connection.condition.t # "str" THEN TypeError
    ELSE
    LET sanitizedTargetId == hyphensToUnderscores(connection.targetNodeId.s)
        sanitized == stripPunctuation(connection.condition.s)
        conditionLabel ==
            IF sanitized # L.default /\ sanitized # L.Else
            THEN T("|") \o substring0(sanitized, 15) \o T("|")
            ELSE IF sanitized = L.Else THEN T("|Else|") ELSE <<>>
    IN  Return(<<T("  ") \o sanitizedSourceId \o T(" -->") \o conditionLabel \o T(" ")
                    \o sanitizedTargetId>>)

\* The line of one connection without the test of its target
mermaidEdgeLinesUnguarded(sanitizedSourceId, connection) ==
    IF connection.targetNodeId.t # "str" THEN TypeError
    ELSE
    LET sanitizedTargetId == hyphensToUnderscores(connection.targetNodeId.s)
        plain == connection.condition = JStr(L.default) \/ connection.condition = JStr(L.Else)
    IN  IF ~plain /\ connection.condition.t # "str" THEN TypeError
        ELSE
        LET conditionLabel ==
                IF ~plain
                THEN T("|") \o substring0(stripPunctuation(connection.condition.s), 15) \o T("|")
                ELSE IF connection.condition = JStr(L.Else) THEN T("|Else|") ELSE <<>>
        IN  Return(<<T("  ") \o sanitizedSourceId \o T(" -->") \o conditionLabel \o T(" ")
                        \o sanitizedTargetId>>)

\* The line of one connection: no line when the target is falsy, TypeError
\* when the target or a condition to sanitise is not a string.
mermaidEdgeLines(sanitizedSourceId, connection) ==
    IF ~Truthy(connection.targetNodeId) THEN Return(<<>>)
    ELSE IF connection.targetNodeId.t # "str" THEN TypeError
    ELSE
    LET sanitizedTargetId == hyphensToUnderscores(connection.targetNodeId.s)
        plain == connection.condition = JStr(L.default) \/ connection.condition = JStr(L.Else)
    IN  IF ~plain /\ connection.condition.t # "str" THEN TypeError
        ELSE
        LET conditionLabel ==
                IF ~plain
                THEN T("|") \o substring0(stripPunctuation(connection.condition.s), 15) \o T("|")
                ELSE IF connection.condition = JStr(L.Else) THEN T("|Else|") ELSE <<>>
        IN  Return(<<T("  ") \o sanitizedSourceId \o T(" -->") \o conditionLabel \o T(" ")
                        \o sanitizedTargetId>>)

\* The lines of the connections of one node, or TypeError
mermaidNodeEdges(node) ==
    IF node.id.t # "str" THEN TypeError
    ELSE Collect([j \in 1..Len(node.next) |->
                    mermaidEdgeLines(hyphensToUnderscores(node.id.s), node.next[j])])

\* Both passes over the nodes, given the completions of each node's lines
mermaidBody(decls, edges) ==
    IF Threw(decls) THEN decls
    ELSE IF Threw(edges) THEN edges
    ELSE Return(<<T("graph TD")>> \o decls.value
                    \o Flatten([i \in 1..Len(edges.value) |-> Flatten(edges.value[i])]))

\* The lines of generateMermaid without the early return for no nodes
mermaidLinesNoPlaceholder(parsed) ==
    mermaidBody(Collect([i \in 1..Len(parsed.nodes) |-> mermaidNodeLine(parsed.nodes[i])]),
                Collect([i \in 1..Len(parsed.nodes) |-> mermaidNodeEdges(parsed.nodes[i])]))

\* The lines of generateMermaid, or TypeError
mermaidLines(parsed) ==
    IF Len(parsed.nodes) = 0
    THEN Return(<<T("graph TD"), T("  NoNodes[No nodes found]")>>)
    ELSE mermaidBody(Collect([i \in 1..Len(parsed.nodes) |-> mermaidNodeLine(parsed.nodes[i])]),
                     Collect([i \in 1..Len(parsed.nodes) |-> mermaidNodeEdges(parsed.nodes[i])]))

\* lines.join('\n') of the completion of building lines
joinLines(lines) ==
    IF Threw(lines) THEN lines ELSE Return(JoinText(lines.value, <<NL>>))

\* generateMermaid(parsed): the diagram text, or what the call throws
generateMermaid(parsed) == joinLines(mermaidLines(parsed))

----------------------------------------------------------------------------
(* JSON.stringify(value, null, 2) *)

RECURSIVE Spaces(_)
Spaces(n) == IF n = 0 THEN <<>> ELSE <<" ">> \o Spaces(n - 1)

\* QuoteJSONString
jsonQuote(s) ==
    <<"\"">> \o Flatten([i \in 1..Len(s) |->
                            CASE s[i] = "\"" -> <<"\\", "\"">>
                              [] s[i] = "\\" -> <<"\\", "\\">>
                              [] s[i] = NL -> <<"\\", "n">>
                              [] s[i] = TAB -> <<"\\", "t">>
                              [] s[i] = "\r" -> <<"\\", "r">>
                              [] s[i] = "\f" -> <<"\\", "f">>
                              [] OTHER -> <<s[i]>>]) \o <<"\"">>

RECURSIVE jsonStringify(_, _)
\* SerializeJSONProperty with a gap of two spaces, at the given indentation
jsonStringify(v, indent) ==
    CASE v.t = "null" -> T("null")
      [] v.t = "bool" -> JsToString(v)
      [] v.t = "num" -> NumText(v.n)
      [] v.t = "dec" -> v.s
      [] v.t = "str" -> jsonQuote(v.s)
      [] v.t = "arr" ->
            IF Len(v.a) = 0 THEN T("[]")
            ELSE T("[") \o <<NL>>
                 \o JoinText([i \in 1..Len(v.a) |->
                                Spaces(indent + 2) \o jsonStringify(v.a[i], indent + 2)],
                             <<",", NL>>)
                 \o <<NL>> \o Spaces(indent) \o T("]")
      [] v.t = "obj" ->
            IF Len(v.o) = 0 THEN T("{}")
            ELSE T("{") \o <<NL>>
                 \o JoinText([i \in 1..Len(v.o) |->
                                Spaces(indent + 2) \o jsonQuote(v.o[i].k) \o T(": ")
                                    \o jsonStringify(v.o[i].v, indent + 2)],
                             <<",", NL>>)
                 \o <<NL>> \o Spaces(indent) \o T("}")

----------------------------------------------------------------------------
(* generateMarkdown *)

\* key.replace(/([A-Z])/g, ' $1').replace(/^./, str => str.toUpperCase())
formatKey(key) ==
    LET spaced == Flatten([i \in 1..Len(key) |->
                            IF key[i] \in Range(UpperCase) THEN <<" ", key[i]>>
                            ELSE <<key[i]>>])
    IN  IF Len(spaced) = 0 \/ spaced[1] \in {NL, "\r"} THEN spaced
        ELSE <<toUpperCase(spaced[1])>> \o Tail(spaced)

\* Array.prototype.join of the values of an array
joinValues(a, sep) ==
    JoinText([i \in 1..Len(a) |-> IF Nullish(a[i]) THEN <<>> ELSE JsToString(a[i])], sep)

\* v?.join(', '): undefined for a missing v, TypeError for a v without a
\* join method
optJoin(v) ==
    IF Nullish(v) THEN Return(Undef)
    ELSE IF v.t = "arr" THEN Return(JStr(joinValues(v.a, T(", "))))
    ELSE TypeError

\* a ?? b ?? em-dash, of the completions of the two joins: every list that is
\* there is joined, an empty one too
optionsOrNullish(c, e) ==
    IF Threw(c) THEN c
    ELSE IF ~Nullish(c.value) THEN Return(c.value.s)
    ELSE IF Threw(e) THEN e
    ELSE IF ~Nullish(e.value) THEN Return(e.value.s)
    ELSE Return(<<EmDash>>)

\* a || b || em-dash, of the completions of the two joins
optionsOr(c, e) ==
    IF Threw(c) THEN c
    ELSE IF Truthy(c.value) THEN Return(c.value.s)
    ELSE IF Threw(e) THEN e
    ELSE IF Truthy(e.value) THEN Return(e.value.s)
    ELSE Return(<<EmDash>>)

\* field.choices?.join(', ') || field.examples?.join(', ') || em-dash
analysisOptions(field) == optionsOr(optJoin(field.choices), optJoin(field.examples))

\* The fence of a code block
Fence == <<Backtick, Backtick, Backtick>>

\* The cell of a node's edges in the node table
nextNodesCell(node, sep) ==
    IF Len(node.next) = 0 THEN <<EmDash>>
    ELSE JoinText([j \in 1..Len(node.next) |->
                      JsToString(node.next[j].condition) \o <<" ", Arrow, " ", Backtick>>
                          \o JsToString(node.next[j].targetNodeId) \o <<Backtick>>],
                  sep)

\* The lines generateMarkdown pushes before the flow diagram
markdownHead(parsed) ==
    <<T("# ") \o JsToString(parsed.name),
      <<>>,
      T("## Agent Overview"),
      <<>>,
      T("| Property | Value |"),
      T("|----------|-------|"),
      T("| **Agent ID** | ") \o <<Backtick>> \o JsToString(parsed.id) \o <<Backtick>> \o T(" |"),
      T("| **Name** | ") \o JsToString(parsed.name) \o T(" |")>>
    \o (IF Truthy(parsed.description)
        THEN <<T("| **Version/Description** | ") \o JsToString(parsed.description) \o T(" |")>>
        ELSE <<>>)
    \o (IF Len(parsed.settings) > 0
        THEN <<<<>>, T("### Settings"), <<>>, T("| Setting | Value |"),
               T("|---------|-------|")>>
             \o [i \in 1..Len(parsed.settings) |->
                    T("| **") \o formatKey(parsed.settings[i].k) \o T("** | ")
                        \o JsToString(parsed.settings[i].v) \o T(" |")]
        ELSE <<>>)
    \o (IF Truthy(parsed.globalPrompt)
        THEN <<<<>>, T("## Global Prompt"), <<>>, Fence, JsToString(parsed.globalPrompt), Fence>>
        ELSE <<>>)
    \o <<<<>>, T("## Conversation Flow Nodes"), <<>>>>
    \o (IF Len(parsed.nodes) = 0
        THEN <<T("*No nodes found in this agent.*")>>
        ELSE <<T("Total nodes: ") \o NatText(Len(parsed.nodes)),
               <<>>,
               T("| Node ID | Name | Type | Next Nodes |"),
               T("|---------|------|------|------------|")>>
             \o [i \in 1..Len(parsed.nodes) |->
                    T("| ") \o <<Backtick>> \o JsToString(parsed.nodes[i].id) \o <<Backtick>>
                        \o T(" | ") \o JsToString(parsed.nodes[i].name)
                        \o T(" | ") \o JsToString(parsed.nodes[i].type)
                        \o T(" | ") \o nextNodesCell(parsed.nodes[i], T("; ")) \o T(" |")])
    \o <<<<>>>>

\* The lines after the flow diagram with the Tools section for every
\* document, with or without tools
markdownTailLinesToolsAlways(parsed, options) ==
    IF Threw(options) THEN options
    ELSE Return(
        (IF \E i \in 1..Len(parsed.nodes) : Truthy(parsed.nodes[i].prompt)
         THEN <<T("## Node Prompts"), <<>>>>
              \o Flatten([i \in 1..Len(parsed.nodes) |->
                    IF Truthy(parsed.nodes[i].prompt)
                    THEN <<T("### ") \o JsToString(parsed.nodes[i].name),
                           T("**ID:** ") \o <<Backtick>> \o JsToString(parsed.nodes[i].id)
                               \o <<Backtick>> \o T(" | **Type:** ")
                               \o JsToString(parsed.nodes[i].type),
                           <<>>,
                           Fence,
                           JsToString(parsed.nodes[i].prompt),
                           Fence,
                           <<>>>>
                    ELSE <<>>])
         ELSE <<>>)
        \o (IF TRUE
            THEN <<T("## Tools"), <<>>, T("| Tool ID | Name | Type | Description |"),
                   T("|---------|------|------|-------------|")>>
                 \o [i \in 1..Len(parsed.tools) |->
                        T("| ") \o <<Backtick>> \o JsToString(parsed.tools[i].id) \o <<Backtick>>
                            \o T(" | ") \o JsToString(parsed.tools[i].name)
                            \o T(" | ") \o JsToString(parsed.tools[i].type)
                            \o T(" | ") \o JsToString(parsed.tools[i].description) \o T(" |")]
                 \o <<<<>>>>
            ELSE <<>>)
        \o (IF Len(parsed.postCallAnalysis) > 0
            THEN <<T("## Post-Call Analysis Fields"), <<>>,
                   T("| Field | Type | Description | Options/Examples |"),
                   T("|-------|------|-------------|------------------|")>>
                 \o [i \in 1..Len(parsed.postCallAnalysis) |->
                        T("| ") \o JsToString(parsed.postCallAnalysis[i].name)
                            \o T(" | ") \o JsToString(parsed.postCallAnalysis[i].type)
                            \o T(" | ") \o JsToString(parsed.postCallAnalysis[i].description)
                            \o T(" | ") \o options.value[i] \o T(" |")]
                 \o <<<<>>>>
            ELSE <<>>)
        \o <<T("## Raw JSON"), <<>>, T("<details>"),
             T("<summary>Click to expand raw JSON</summary>"), <<>>,
             Fence \o T("json"),
             jsonStringify(parsed.rawJson, 0),
             Fence, <<>>, T("</details>")>>)

\* The lines generateMarkdown pushes after the flow diagram, given the
\* completions of the option cells
markdownTailLines(parsed, options) ==
    IF Threw(options) THEN options
    ELSE Return(
        (IF \E i \in 1..Len(parsed.nodes) : Truthy(parsed.nodes[i].prompt)
         THEN <<T("## Node Prompts"), <<>>>>
              \o Flatten([i \in 1..Len(parsed.nodes) |->
                    IF Truthy(parsed.nodes[i].prompt)
                    THEN <<T("### ") \o JsToString(parsed.nodes[i].name),
                           T("**ID:** ") \o <<Backtick>> \o JsToString(parsed.nodes[i].id)
                               \o <<Backtick>> \o T(" | **Type:** ")
                               \o JsToString(parsed.nodes[i].type),
                           <<>>,
                           Fence,
                           JsToString(parsed.nodes[i].prompt),
                           Fence,
                           <<>>>>
                    ELSE <<>>])
         ELSE <<>>)
        \o (IF Len(parsed.tools) > 0
            THEN <<T("## Tools"), <<>>, T("| Tool ID | Name | Type | Description |"),
                   T("|---------|------|------|-------------|")>>
                 \o [i \in 1..Len(parsed.tools) |->
                        T("| ") \o <<Backtick>> \o JsToString(parsed.tools[i].id) \o <<Backtick>>
                            \o T(" | ") \o JsToString(parsed.tools[i].name)
                            \o T(" | ") \o JsToString(parsed.tools[i].type)
                            \o T(" | ") \o JsToString(parsed.tools[i].description) \o T(" |")]
                 \o <<<<>>>>
            ELSE <<>>)
        \o (IF Len(parsed.postCallAnalysis) > 0
            THEN <<T("## Post-Call Analysis Fields"), <<>>,
                   T("| Field | Type | Description | Options/Examples |"),
                   T("|-------|------|-------------|------------------|")>>
                 \o [i \in 1..Len(parsed.postCallAnalysis) |->
                        T("| ") \o JsToString(parsed.postCallAnalysis[i].name)
                            \o T(" | ") \o JsToString(parsed.postCallAnalysis[i].type)
                            \o T(" | ") \o JsToString(parsed.postCallAnalysis[i].description)
                            \o T(" | ") \o options.value[i] \o T(" |")]
                 \o <<<<>>>>
            ELSE <<>>)
        \o <<T("## Raw JSON"), <<>>, T("<details>"),
             T("<summary>Click to expand raw JSON</summary>"), <<>>,
             Fence \o T("json"),
             jsonStringify(parsed.rawJson, 0),
             Fence, <<>>, T("</details>")>>)

\* The lines generateMarkdown pushes after the flow diagram, or TypeError
markdownTail(parsed) ==
    markdownTailLines(parsed,
        Collect([i \in 1..Len(parsed.postCallAnalysis) |->
                    analysisOptions(parsed.postCallAnalysis[i])]))

\* The flow diagram section with the header line of the diagram only
markdownDiagramHeaderOnly(diagram) ==
    IF Threw(diagram) THEN diagram
    ELSE Return(<<T("## Flow Diagram"), <<>>, Fence \o T("mermaid"), T("graph TD"), Fence,
                  <<>>>>)

\* The lines of the flow diagram section, given the completion of
\* generateMermaid
markdownDiagram(diagram) ==
    IF Threw(diagram) THEN diagram
    ELSE Return(<<T("## Flow Diagram"), <<>>, Fence \o T("mermaid"), diagram.value, Fence,
                  <<>>>>)

\* The lines of two parts of a text, one after the other
thenLines(a, b) ==
    IF Threw(a) THEN a ELSE IF Threw(b) THEN b ELSE Return(a.value \o b.value)

\* The lines of generateMarkdown, or TypeError
markdownLines(parsed) ==
    thenLines(Return(markdownHead(parsed)),
              thenLines(markdownDiagram(generateMermaid(parsed)), markdownTail(parsed)))

\* generateMarkdown(parsed): the document text, or what the call throws
generateMarkdown(parsed) == joinLines(markdownLines(parsed))

----------------------------------------------------------------------------
(* generateHtml *)

\* The constant parts of the templates of generateHtml, by what follows them
H ==
    [ settingKey |-> T("<tr><td><strong>"),
      settingValue |-> T("</strong></td><td>"),
      settingEnd |-> T("</td></tr>"),
      nextOpen |-> T("<span class=\"next-node\">"),
      nextClose |-> T("</span>"),
      nextSep |-> T("<br>"),
      rowId |-> T("\n      <tr>\n        <td><code>"),
      rowName |-> T("</code></td>\n        <td>"),
      rowTypeClass |-> T("</td>\n        <td><span class=\"node-type node-type-"),
      rowType |-> T("\">"),
      rowPrompt |-> T("</span></td>\n        <td class=\"prompt-cell\">"),
      br |-> T("<br>"),
      rowNext |-> T("</td>\n        <td>"),
      rowEnd |-> T("</td>\n      </tr>\n    "),
      detailName |-> T("\n      <div class=\"prompt-detail\">\n        <h4>"),
      detailId |-> T(" <code>"),
      detailTypeClass |-> T("</code> <span class=\"node-type node-type-"),
      detailType |-> T("\">"),
      detailPrompt |-> T("</span></h4>\n        <pre>"),
      detailEnd |-> T("</pre>\n      </div>\n    "),
      toolsHead |-> T("\n    <h2>Tools</h2>\n    <table>\n      <thead>\n        <tr>\n          <th>Tool ID</th>\n          <th>Name</th>\n          <th>Type</th>\n          <th>Description</th>\n        </tr>\n      </thead>\n      <tbody>\n        "),
      toolId |-> T("\n          <tr>\n            <td><code>"),
      toolName |-> T("</code></td>\n            <td>"),
      toolType |-> T("</td>\n            <td><span class=\"tool-type\">"),
      toolDescription |-> T("</span></td>\n            <td>"),
      toolEnd |-> T("</td>\n          </tr>\n        "),
      toolsEnd |-> T("\n      </tbody>\n    </table>\n  "),
      fieldsHead |-> T("\n    <h2>Post-Call Analysis Fields</h2>\n    <table>\n      <thead>\n        <tr>\n          <th>Field</th>\n          <th>Type</th>\n          <th>Description</th>\n          <th>Options/Examples</th>\n        </tr>\n      </thead>\n      <tbody>\n        "),
      fieldName |-> T("\n          <tr>\n            <td><strong>"),
      fieldType |-> T("</strong></td>\n            <td><span class=\"field-type\">"),
      fieldDescription |-> T("</span></td>\n            <td>"),
      fieldOptions |-> T("</td>\n            <td>"),
      fieldEnd |-> T("</td>\n          </tr>\n        "),
      fieldsEnd |-> T("\n      </tbody>\n    </table>\n  "),
      globalPrompt |-> T("\n    <h2>Global Prompt</h2>\n    <div class=\"global-prompt\">\n      <pre>"),
      globalPromptEnd |-> T("</pre>\n    </div>\n  "),
      docTitle |-> T("\n<!DOCTYPE html>\n<html lang=\"en\">\n<head>\n  <meta charset=\"UTF-8\">\n  <meta name=\"viewport\" content=\"width=device-width, initial-scale=1.0\">\n  <title>"),
      docScript |-> T(" - Documentation</title>\n  <script src=\"https://cdn.jsdelivr.net/npm/mermaid/dist/mermaid.min.js\"></script>\n  "),
      docBody |-> T("\n</head>\n<body>\n  <div class=\"container\">\n    <h1>"),
      titleGap |-> T(" "),
      badge |-> T("<span class=\"badge badge-version\">"),
      badgeEnd |-> T("</span>"),
      overview |-> T("</h1>\n    \n    <h2>Agent Overview</h2>\n    <table>\n      <tr><td><strong>Agent ID</strong></td><td><code>"),
      overviewName |-> T("</code></td></tr>\n      <tr><td><strong>Name</strong></td><td>"),
      overviewNameEnd |-> T("</td></tr>\n      "),
      version |-> T("<tr><td><strong>Version</strong></td><td>"),
      versionEnd |-> T("</td></tr>"),
      overviewEnd |-> T("\n    </table>\n    \n    "),
      configuration |-> T("\n      <h3>Configuration</h3>\n      <table>\n        "),
      configurationEnd |-> T("\n      </table>\n    "),
      beforeGlobalPrompt |-> T("\n    \n    "),
      flow |-> T("\n    \n    <h2>Conversation Flow</h2>\n    <p style=\"color: #8899a6; margin-bottom: 1rem;\">Total nodes: "),
      flowCount |-> T("</p>\n    "),
      nodesHead |-> T("\n      <table>\n        <thead>\n          <tr>\n            <th>Node ID</th>\n            <th>Name</th>\n            <th>Type</th>\n            <th>Prompt Preview</th>\n            <th>Next Nodes</th>\n          </tr>\n        </thead>\n        <tbody>\n          "),
      nodesEnd |-> T("\n        </tbody>\n      </table>\n    "),
      noNodes |-> T("<p>No nodes found in this agent.</p>"),
      diagram |-> T("\n    \n    <h2>Flow Diagram</h2>\n    <div class=\"mermaid-container\">\n      "),
      pre |-> T("<pre class=\"mermaid\">"),
      preEnd |-> T("</pre>"),
      diagramEnd |-> T("\n    </div>\n    \n    "),
      details |-> T("\n      <h2>Detailed Node Prompts</h2>\n      "),
      detailsEnd |-> T("\n    "),
      beforeTools |-> T("\n    \n    "),
      beforeFields |-> T("\n    \n    "),
      rawJson |-> T("\n    \n    <h2>Raw JSON</h2>\n    <details>\n      <summary>Click to expand raw JSON</summary>\n      <pre>"),
      docEnd |-> T("</pre>\n    </details>\n  </div>\n  \n  <script>\n    mermaid.initialize({ \n      startOnLoad: true, \n      theme: 'dark',\n      themeVariables: {\n        primaryColor: '#1db9a0',\n        primaryTextColor: '#e7e9ea',\n        primaryBorderColor: '#2f3336',\n        lineColor: '#8899a6',\n        secondaryColor: '#1a1f26',\n        tertiaryColor: '#0f1419'\n      }\n    });\n  </script>\n</body>\n</html>\n  ") ]
\* The <style> element of the page, a constant of about three thousand
\* characters without any interpolation, kept as one element
styleSheet == <<"<style>...</style>">>

RECURSIVE trimStart(_, _)
\* The index of the first character of s from i on that is not white space
trimStart(s, i) ==
    IF i > Len(s) \/ ~IsSpaceChar(s[i]) THEN i ELSE trimStart(s, i + 1)

RECURSIVE trimEnd(_, _)
\* The index of the last character of s up to i that is not white space
trimEnd(s, i) ==
    IF i < 1 \/ ~IsSpaceChar(s[i]) THEN i ELSE trimEnd(s, i - 1)

\* s.trim()
trim(s) == SubSeq(s, trimStart(s, 1), trimEnd(s, Len(s)))

\* s.replace(/\n/g, '<br>')
lineBreaks(s) == Flatten([i \in 1..Len(s) |-> IF s[i] = NL THEN H.br ELSE <<s[i]>>])

\* The rows of the Configuration table
settingsRows(parsed) ==
    Flatten([i \in 1..Len(parsed.settings) |->
                H.settingKey \o formatKey(parsed.settings[i].k) \o H.settingValue
                    \o JsToString(parsed.settings[i].v) \o H.settingEnd])

\* The preview of a prompt in the node table, or TypeError for a prompt
\* without the methods of a string
promptPreview(prompt) ==
    IF prompt.t # "str" THEN TypeError
    ELSE Return(lineBreaks(IF Len(prompt.s) > 150
                           THEN substring0(prompt.s, 150) \o T("...")
                           ELSE prompt.s))

\* The cell of a node's edges in the node table of the page
nextNodes(node) ==
    IF Len(node.next) > 0
    THEN JoinText([j \in 1..Len(node.next) |->
                      H.nextOpen \o JsToString(node.next[j].condition) \o <<" ", Arrow, " ">>
                          \o JsToString(node.next[j].targetNodeId) \o H.nextClose],
                  H.nextSep)
    ELSE <<EmDash>>

\* One row of the node table, given the completion of its prompt preview
nodesRow(node, preview) ==
    IF Threw(preview) THEN preview
    ELSE Return(H.rowId \o JsToString(node.id) \o H.rowName \o JsToString(node.name)
                    \o H.rowTypeClass \o JsToString(node.type) \o H.rowType
                    \o JsToString(node.type) \o H.rowPrompt \o preview.value \o H.rowNext
                    \o nextNodes(node) \o H.rowEnd)

\* parsed.nodes.map(...).join('') of the node table
nodesRows(parsed) ==
    Collect([i \in 1..Len(parsed.nodes) |->
                nodesRow(parsed.nodes[i], promptPreview(parsed.nodes[i].prompt))])

\* parsed.nodes.filter(n => n.prompt).map(...).join('')
detailedPrompts(parsed) ==
    Flatten([i \in 1..Len(parsed.nodes) |->
                IF Truthy(parsed.nodes[i].prompt)
                THEN H.detailName \o JsToString(parsed.nodes[i].name) \o H.detailId
                         \o JsToString(parsed.nodes[i].id) \o H.detailTypeClass
                         \o JsToString(parsed.nodes[i].type) \o H.detailType
                         \o JsToString(parsed.nodes[i].type) \o H.detailPrompt
                         \o JsToString(parsed.nodes[i].prompt) \o H.detailEnd
                ELSE <<>>])

toolsSection(parsed) ==
    IF Len(parsed.tools) > 0
    THEN H.toolsHead
         \o Flatten([i \in 1..Len(parsed.tools) |->
                H.toolId \o JsToString(parsed.tools[i].id) \o H.toolName
                    \o JsToString(parsed.tools[i].name) \o H.toolType
                    \o JsToString(parsed.tools[i].type) \o H.toolDescription
                    \o JsToString(parsed.tools[i].description) \o H.toolEnd])
         \o H.toolsEnd
    ELSE <<>>

\* The section of the analysis fields, given the completions of the option
\* cells
postCallRows(parsed, options) ==
    IF Threw(options) THEN options
    ELSE Return(
        IF Len(parsed.postCallAnalysis) > 0
        THEN H.fieldsHead
             \o Flatten([i \in 1..Len(parsed.postCallAnalysis) |->
                    H.fieldName \o JsToString(parsed.postCallAnalysis[i].name) \o H.fieldType
                        \o JsToString(parsed.postCallAnalysis[i].type) \o H.fieldDescription
                        \o JsToString(parsed.postCallAnalysis[i].description) \o H.fieldOptions
                        \o options.value[i] \o H.fieldEnd])
             \o H.fieldsEnd
        ELSE <<>>)

postCallSection(parsed) ==
    postCallRows(parsed,
        Collect([i \in 1..Len(parsed.postCallAnalysis) |->
                    analysisOptions(parsed.postCallAnalysis[i])]))

globalPromptSection(parsed) ==
    IF Truthy(parsed.globalPrompt)
    THEN H.globalPrompt \o JsToString(parsed.globalPrompt) \o H.globalPromptEnd
    ELSE <<>>

\* The content of the diagram container with every defined argument taken as
\* supplied
diagramMarkupNullish(parsed, mermaidSvg) ==
    IF ~Nullish(mermaidSvg) THEN Return(JsToString(mermaidSvg))
    ELSE IF Threw(generateMermaid(parsed)) THEN generateMermaid(parsed)
    ELSE Return(H.pre \o generateMermaid(parsed).value \o H.preEnd)

\* mermaidSvg ? mermaidSvg : `<pre class="mermaid">${generateMermaid(parsed)}</pre>`
diagramMarkup(parsed, mermaidSvg) ==
    IF Truthy(mermaidSvg) THEN Return(JsToString(mermaidSvg))
    ELSE IF Threw(generateMermaid(parsed)) THEN generateMermaid(parsed)
    ELSE Return(H.pre \o generateMermaid(parsed).value \o H.preEnd)

\* The page before the node table
htmlHead(parsed) ==
    H.docTitle \o JsToString(parsed.name) \o H.docScript \o styleSheet \o H.docBody
    \o JsToString(parsed.name) \o H.titleGap
    \o (IF Truthy(parsed.description)
        THEN H.badge \o JsToString(parsed.description) \o H.badgeEnd
        ELSE <<>>)
    \o H.overview \o JsToString(parsed.id) \o H.overviewName \o JsToString(parsed.name)
    \o H.overviewNameEnd
    \o (IF Truthy(parsed.description)
        THEN H.version \o JsToString(parsed.description) \o H.versionEnd
        ELSE <<>>)
    \o H.overviewEnd
    \o (IF Len(parsed.settings) > 0
        THEN H.configuration \o settingsRows(parsed) \o H.configurationEnd
        ELSE <<>>)
    \o H.beforeGlobalPrompt \o globalPromptSection(parsed)
    \o H.flow \o NatText(Len(parsed.nodes)) \o H.flowCount

\* The page from the node table to its end, given the completions of the
\* rows, of the diagram container and of the analysis fields
htmlBody(parsed, rows, diagram, fields) ==
    IF Threw(rows) THEN rows
    ELSE IF Threw(fields) THEN fields
    ELSE IF Threw(diagram) THEN diagram
    ELSE Return(
        (IF Len(parsed.nodes) > 0
         THEN H.nodesHead \o Flatten(rows.value) \o H.nodesEnd
         ELSE H.noNodes)
        \o H.diagram \o diagram.value \o H.diagramEnd
        \o (IF Len(detailedPrompts(parsed)) > 0
            THEN H.details \o detailedPrompts(parsed) \o H.detailsEnd
            ELSE <<>>)
        \o H.beforeTools \o toolsSection(parsed)
        \o H.beforeFields \o fields.value
        \o H.rawJson \o jsonStringify(parsed.rawJson, 0) \o H.docEnd)

\* The template of the page trimmed, given the completion of its body
htmlPage(parsed, body) ==
    IF Threw(body) THEN body ELSE Return(trim(htmlHead(parsed) \o body.value))

\* generateHtml(parsed, mermaidSvg): the page, or what the call throws
generateHtml(parsed, mermaidSvg) ==
    htmlPage(parsed,
             htmlBody(parsed, nodesRows(parsed), diagramMarkup(parsed, mermaidSvg),
                      postCallSection(parsed)))

\* String.prototype.toLowerCase of one character
toLowerCase(c) ==
    IF c \in Range(UpperCase)
    THEN LowerCase[CHOOSE i \in 1..26 : UpperCase[i] = c]
    ELSE c

\* s.replace(/\s+/g, '-').toLowerCase()
fileStem(s) ==
    Flatten([i \in 1..Len(s) |->
                IF ~IsSpaceChar(s[i]) THEN <<toLowerCase(s[i])>>
                ELSE IF i > 1 /\ IsSpaceChar(s[i - 1]) THEN <<>>
                ELSE <<"-">>])

\* The file handleDownloadHtml saves: its content and its name, or what the
\* handler throws
htmlFile(html, name) ==
    IF Threw(html) THEN html
    ELSE IF name.t # "str" THEN TypeError
    ELSE Return([html |-> html.value,
                 download |-> fileStem(name.s) \o T("-documentation.html")])

----------------------------------------------------------------------------
(* The inputs: texts that can be pasted into the JSON field *)

\* An object literal: the entries whose value is not undefined, in order.
Obj(entries) == JObj(SelectSeq(entries, LAMBDA e : e.v.t # "undef"))

Str(s) == JStr(T(s))

\* What one candidate path of a fallback chain can hold: nothing, null, the
\* falsy values "", 0 and false, or a string that names the path.
ChainValues(s) == {Undef, JNull, JStr(<<>>), JNum(0), JBool(FALSE), Str(s)}

\* The same without the falsy number and boolean.
TextValues(s) == {Undef, JNull, JStr(<<>>), Str(s)}

\* All sequences over S of length at most n
SeqsUpTo(S, n) == UNION {[1..k -> S] : k \in 0..n}

TextOf(v) == [kind |-> "json", value |-> v]
BlankText == [kind |-> "blank"]
InvalidText == [kind |-> "invalid"]

\* Top-level values of every JSON type
TopLevelDocs ==
    {JNull, Str("x"), JStr(<<>>), JNum(0), JNum(5), JBool(TRUE), JBool(FALSE),
     JArr(<<>>), JArr(<<JObj(<<>>)>>), JObj(<<>>)}

AgentIdDocs ==
    {Obj(<<KV(K.agent_id, a), KV(K.id, b), KV(K.agentId, c)>>) :
        a \in ChainValues("A1"), b \in ChainValues("A2"), c \in ChainValues("A3")}

AgentNameDocs ==
    {Obj(<<KV(K.agent_name, a), KV(K.name, b), KV(K.agentName, c)>>) :
        a \in ChainValues("Name One"), b \in ChainValues("Name Two"),
        c \in ChainValues("Name Three")}

DescriptionDocs ==
    {Obj(<<KV(K.description, a), KV(K.version_title, b), KV(K.desc, c)>>) :
        a \in ChainValues("d1"), b \in ChainValues("v2"), c \in ChainValues("d3")}

GlobalPromptDocs ==
    {Obj(<<KV(K.conversationFlow, cf), KV(K.global_prompt, g)>>) :
        cf \in {Undef, JNull} \cup {Obj(<<KV(K.global_prompt, v)>>) : v \in ChainValues("flow prompt")},
        g \in ChainValues("top prompt")}

IdNode(s) == Obj(<<KV(K.id, Str(s))>>)

\* What a candidate path of the node list can hold
NodeLists(s) == {Undef, JNull, JArr(<<>>), JArr(<<IdNode(s)>>), Str("none")}

NodeSourceDocs ==
    {Obj(<<KV(K.conversationFlow, Obj(<<KV(K.nodes, a)>>)), KV(K.nodes, b),
           KV(K.flow, Obj(<<KV(K.nodes, c)>>)), KV(K.steps, d)>>) :
        a \in NodeLists("n-1"), b \in NodeLists("n-2"), c \in NodeLists("n-3"),
        d \in NodeLists("n-4")}

OneNode(node) == Obj(<<KV(K.nodes, JArr(<<node>>))>>)

NodeIdDocs ==
    {OneNode(Obj(<<KV(K.id, a), KV(K.node_id, b), KV(K.nodeId, c)>>)) :
        a \in ChainValues("start-1"), b \in ChainValues("id2"), c \in ChainValues("id3")}

NodeNameDocs ==
    {OneNode(Obj(<<KV(K.id, Str("n1")), KV(K.name, a), KV(K.label, b), KV(K.title, c)>>)) :
        a \in ChainValues("Greet (1)"), b \in ChainValues("label"), c \in ChainValues("title")}

NodeTypeDocs ==
    {OneNode(Obj(<<KV(K.id, Str("n1")), KV(K.type, a), KV(K.node_type, b), KV(K.nodeType, c)>>)) :
        a \in ChainValues("end"), b \in ChainValues("branch"), c \in ChainValues("function")}

NodePromptDocs ==
    {OneNode(Obj(<<KV(K.id, Str("n1")), KV(K.instruction, i), KV(K.prompt, b),
                   KV(K.instructions, c), KV(K.content, d)>>)) :
        i \in {Undef, JNull} \cup {Obj(<<KV(K.text, v)>>) : v \in TextValues("say hi")},
        b \in TextValues("p2"), c \in TextValues("p3"), d \in TextValues("p4")}

\* Elements of the node list that are not objects
OddNodeDocs ==
    {OneNode(n) : n \in {JNull, Str("s"), JNum(3), JBool(TRUE), JArr(<<>>)}}
    \cup {OneNode(Obj(<<KV(K.id, v), KV(K.name, w)>>)) :
            v \in {JNum(7), Str("n1")}, w \in {JNum(8), JArr(<<Str("a"), JNull>>), JObj(<<>>)}}

OneEdge(edge) == OneNode(Obj(<<KV(K.id, Str("n1")), KV(K.edges, JArr(<<edge>>))>>))

EdgeTargetDocs ==
    {OneEdge(Obj(<<KV(K.destination_node_id, a), KV(K.targetNodeId, b), KV(K.target, c),
                   KV(K.next_node, d)>>)) :
        a \in TextValues("t1"), b \in TextValues("t2"), c \in TextValues("t3"),
        d \in TextValues("t4")}

EdgeConditionDocs ==
    {OneEdge(Obj(<<KV(K.transition_condition, tc), KV(K.condition, b), KV(K.label, c),
                   KV(K.destination_node_id, Str("t1"))>>)) :
        tc \in {Undef, JNull} \cup {Obj(<<KV(K.prompt, v)>>) : v \in ChainValues("wants a demo?")},
        b \in ChainValues("Else"), c \in ChainValues("default")}

\* The four sources of a node's edges
EdgeEntries ==
    {Obj(<<KV(K.destination_node_id, Str("t1")), KV(K.condition, Str("c1"))>>),
     Obj(<<KV(K.condition, Str("lost"))>>)}
LegacyEntries ==
    {Obj(<<KV(K.target, Str("t1")), KV(K.trigger, Str("go"))>>),
     Obj(<<KV(K.label, Str("nowhere"))>>)}
EdgesChoices ==
    {Undef, Str("none"), JArr(<<JNull>>)} \cup {JArr(a) : a \in SeqsUpTo(EdgeEntries, MaxEdges)}
ElseChoices ==
    {Undef, JNull, Obj(<<KV(K.transition_condition, Obj(<<KV(K.prompt, Str("otherwise"))>>))>>),
     Obj(<<KV(K.destination_node_id, Str("t1"))>>)}
SkipChoices ==
    {Undef, Obj(<<KV(K.destination_node_id, JStr(<<>>))>>),
     Obj(<<KV(K.destination_node_id, Str("t3"))>>)}
NextChoices ==
    {Undef, Str("none"), JArr(<<JNull>>)} \cup {JArr(a) : a \in SeqsUpTo(LegacyEntries, MaxEdges)}

AggregationDocs ==
    {OneNode(Obj(<<KV(K.id, Str("n1")), KV(K.edges, e), KV(K.else_edge, el),
                   KV(K.skip_response_edge, sk), KV(K.next, nx)>>)) :
        e \in EdgesChoices, el \in ElseChoices, sk \in SkipChoices, nx \in NextChoices}

\* The named settings: the property each is probed at, and a value for it
NamedProbes ==
    <<KV(K.language, Str("en-US")), KV(K.voice_id, Str("v-1")), KV(K.voice_speed, JNum(2)),
      KV(K.voice_temperature, JNum(1)), KV(K.responsiveness, JNum(1)),
      KV(K.interruption_sensitivity, JNum(1)), KV(K.ambient_sound, Str("cafe")),
      KV(K.stt_mode, Str("fast")), KV(K.max_call_duration_ms, JNum(3600000)),
      KV(K.reminder_trigger_ms, JNum(10000)), KV(K.end_call_after_silence_ms, JNum(600))>>

FalsyValues == {JNull, JNum(0), JStr(<<>>), JBool(FALSE)}

FlowSettings ==
    {Undef, JNull, JObj(<<>>), Obj(<<KV(K.model_choice, JNull)>>)}
    \cup {Obj(<<KV(K.model_choice, Obj(<<KV(K.model, m)>>)), KV(K.model_temperature, t)>>) :
            m \in FalsyValues \cup {Undef, Str("gpt")},
            t \in {Undef, JNull, JNum(0), JNum(1)}}

NamedSettingsDocs ==
    {Obj(<<KV(K.conversationFlow, cf)>>) : cf \in FlowSettings}
    \cup UNION {{Obj(<<KV(NamedProbes[i].k, v)>>) : v \in FalsyValues \cup {NamedProbes[i].v}} :
                    i \in 1..Len(NamedProbes)}
    \cup {JObj(<<KV(K.conversationFlow,
                    Obj(<<KV(K.model_choice, Obj(<<KV(K.model, Str("gpt"))>>)),
                          KV(K.model_temperature, JNum(0))>>))>> \o NamedProbes)}

LegacySettingsDocs ==
    {Obj(<<KV(K.language, nl),
           KV(K.conversationFlow, Obj(<<KV(K.model_temperature, nt)>>)),
           KV(K.settings, JObj(<<KV(T("fooBar"), lf), KV(SK.language, ll),
                                 KV(SK.temperature, lt), KV(SK.maxCallDuration, ld)>>))>>) :
        nl \in {Undef, Str("en-US")}, nt \in {Undef, JNum(1)},
        lf \in {JNull, JBool(FALSE)}, ll \in {JNull, Str("fr"), JNum(0)},
        lt \in {JNull, JNum(9)}, ld \in {JNull, Str("1h")}}
    \cup {Obj(<<KV(K.language, Str("en-US")), KV(K.settings, s)>>) :
            s \in {JNull, JStr(<<>>), Str("ab"), JNum(4), JBool(TRUE), JObj(<<>>),
                   JArr(<<Str("q"), JNull>>),
                   JObj(<<KV(T("10"), JNum(1)), KV(T("2"), JNum(2)), KV(T("x"), JNull)>>),
                   JObj(<<KV(T("Voice"), Str("alloy")), KV(T("apiURL"), Str("u"))>>)}}

\* Durations in milliseconds around the boundaries of formatDuration and on
\* the decimal ties of the minutes range
Durations ==
    {1, 999, 1000, 1499, 1500, 59499, 59500, 59999}
    \cup {60000 + 3000 * j : j \in 0..MaxTieStep}

DurationDocs ==
    {Obj(<<KV(k, JNum(n))>>) :
        k \in {K.max_call_duration_ms, K.reminder_trigger_ms, K.end_call_after_silence_ms},
        n \in Durations}

Tool(s) == Obj(<<KV(K.tool_id, Str(s)), KV(K.name, Str("book")), KV(K.type, Str("custom"))>>)
ToolLists(s) == {Undef, JNull, JArr(<<>>), JArr(<<Tool(s)>>), Str("none")}

ToolDocs ==
    {Obj(<<KV(K.conversationFlow, Obj(<<KV(K.tools, a)>>)), KV(K.tools, b)>>) :
        a \in ToolLists("tool-1"), b \in ToolLists("tool-2")}
    \cup {Obj(<<KV(K.tools, JArr(<<t>>))>>) :
            t \in {JNull, JNum(1)}
               \cup {Obj(<<KV(K.tool_id, a), KV(K.id, b), KV(K.description, c)>>) :
                        a \in TextValues("tool-1"), b \in TextValues("id-2"),
                        c \in TextValues("books a slot")}}

OptionLists(s) == {Undef, JNull, JArr(<<>>), JArr(<<Str(s), Str("other")>>), Str("bad")}

AnalysisDocs ==
    {Obj(<<KV(K.post_call_analysis_data, p)>>) : p \in {JNull, Str("none"), JArr(<<JNull>>)}}
    \cup {Obj(<<KV(K.post_call_analysis_data,
                   JArr(<<Obj(<<KV(K.name, Str("mood")), KV(K.type, t), KV(K.choices, c),
                                KV(K.examples, e)>>)>>))>>) :
            t \in {Undef, Str("enum")}, c \in OptionLists("happy"), e \in OptionLists("sad")}

\* Nodes for the diagram: ids with and without "start", and every type that
\* has a shape of its own
ShapeDocs ==
    {OneNode(Obj(<<KV(K.id, Str(i)), KV(K.name, Str("Shape")), KV(K.type, t)>>)) :
        i \in {"n-1", "start-1", "restart"},
        t \in {Undef, Str("end"), Str("branch"), Str("function"), Str("start")}}

\* Conditions of an edge: the two literals the diagram knows, their
\* look-alikes, and texts to sanitise and to cut
LabelDocs ==
    {OneNode(Obj(<<KV(K.id, Str("n-1")),
                   KV(K.next, JArr(<<Obj(<<KV(K.condition, Str(c)),
                                           KV(K.target, Str("n-2"))>>)>>))>>)) :
        c \in {"default", "Else", "else", "Default", " Else", "default!", "no?",
               "Caller wants to book, now!", "a\nb"}}

\* Two nodes with an edge from the first to the second; the name of the
\* first holds punctuation, a tab, a line break or more than 25 characters
NameDocs ==
    {Obj(<<KV(K.nodes,
              JArr(<<Obj(<<KV(K.id, Str("a-1")), KV(K.name, Str(n)),
                           KV(K.edges, JArr(<<Obj(<<KV(K.destination_node_id, Str("b-2"))>>)>>))>>),
                     Obj(<<KV(K.id, Str("b-2")), KV(K.name, Str("Bye")),
                           KV(K.prompt, Str("Say bye."))>>)>>))>>) :
        n \in {"Greet", "Tab\tStop", "Line\nBreak", "A very long node name, over 25 chars"}}

\* Two nodes with an edge from the first to the second and one back to the
\* first; the ids hold one hyphen or several, and some differ in the
\* separator only
SeparatorDocs ==
    {Obj(<<KV(K.nodes,
              JArr(<<Obj(<<KV(K.id, Str(ids[1])), KV(K.name, Str("One")),
                           KV(K.edges, JArr(<<Obj(<<KV(K.destination_node_id, Str(ids[2]))>>)>>))>>),
                     Obj(<<KV(K.id, Str(ids[2])), KV(K.name, Str("Two")),
                           KV(K.next, JArr(<<Obj(<<KV(K.target, Str(ids[1]))>>)>>))>>)>>))>>) :
        ids \in {<<"a-1", "a_1">>, <<"x-y-z", "a-1">>, <<"a-1-2", "a_1-2">>, <<"a_1_2", "a-1-2">>}}

\* A node whose prompt is a JSON value other than a text
PromptValueDocs ==
    {OneNode(Obj(<<KV(K.id, Str("n-1")), KV(K.name, Str("Ask")), KV(K.prompt, v)>>)) :
        v \in {JNum(5), JBool(TRUE), JArr(<<Str("a")>>), Obj(<<KV(K.text, Str("hi"))>>)}}

\* A small flow in the dialect of a Retell export
FlowDoc ==
    JObj(<<KV(K.agent_id, Str("agent_1")),
           KV(K.agent_name, Str("Demo Agent")),
           KV(K.language, Str("en-US")),
           KV(K.conversationFlow,
              JObj(<<KV(K.global_prompt, Str("Be kind.")),
                     KV(K.nodes,
                        JArr(<<JObj(<<KV(K.id, Str("node-start")), KV(K.name, Str("Welcome")),
                                      KV(K.type, Str("conversation")),
                                      KV(K.instruction, JObj(<<KV(K.text, Str("Greet."))>>)),
                                      KV(K.edges,
                                         JArr(<<JObj(<<KV(K.destination_node_id, Str("node-end")),
                                                       KV(K.transition_condition,
                                                          JObj(<<KV(K.prompt, Str("User says bye!"))>>))>>)>>))>>),
                               JObj(<<KV(K.id, Str("node-end")), KV(K.name, Str("Goodbye")),
                                      KV(K.type, Str("end"))>>)>>))>>))>>)

\* The demo export of the page: a clinic agent of ten nodes
demoAgentJson ==
    JObj(<<KV(T("id"), Str("agent_demo_123")),
           KV(T("name"), Str("Customer Support Agent")),
           KV(T("description"), Str("An AI voice agent that handles customer inquiries, appointment booking, and general support questions for a healthcare clinic.")),
           KV(T("settings"), JObj(<<KV(T("model"), Str("gpt-4-turbo")),
                                    KV(T("temperature"), JDec(T("0.7"))),
                                    KV(T("language"), Str("en-US")),
                                    KV(T("voice"), Str("alloy")),
                                    KV(T("maxDuration"), JNum(300))>>)),
           KV(T("nodes"), JArr(<<JObj(<<KV(T("id"), Str("node_start")),
                                        KV(T("type"), Str("start")),
                                        KV(T("name"), Str("Welcome")),
                                        KV(T("prompt"), Str("Hello! Thank you for calling HealthFirst Clinic. My name is Sarah, and I'm here to help you today. How may I assist you?")),
                                        KV(T("conditions"), JArr(<<>>)),
                                        KV(T("next"), JArr(<<JObj(<<KV(T("condition"), Str("appointment")),
                                                                    KV(T("targetNodeId"), Str("node_booking"))>>),
                                                             JObj(<<KV(T("condition"), Str("general_inquiry")),
                                                                    KV(T("targetNodeId"), Str("node_general"))>>),
                                                             JObj(<<KV(T("condition"), Str("emergency")),
                                                                    KV(T("targetNodeId"), Str("node_emergency"))>>)>>))>>),
                                 JObj(<<KV(T("id"), Str("node_booking")),
                                        KV(T("type"), Str("prompt")),
                                        KV(T("name"), Str("Appointment Booking")),
                                        KV(T("prompt"), Str("I'd be happy to help you schedule an appointment. Let me gather some information.\n\nFirst, could you please tell me:\n1. Your full name\n2. Your date of birth\n3. The reason for your visit\n4. Your preferred date and time\n\nI'll check our availability and find the best slot for you.")),
                                        KV(T("conditions"), JArr(<<Str("user mentions appointment"),
                                                                   Str("user wants to book"),
                                                                   Str("schedule visit")>>)),
                                        KV(T("next"), JArr(<<JObj(<<KV(T("condition"), Str("confirmed")),
                                                                    KV(T("targetNodeId"), Str("node_confirm"))>>),
                                                             JObj(<<KV(T("condition"), Str("reschedule")),
                                                                    KV(T("targetNodeId"), Str("node_reschedule"))>>),
                                                             JObj(<<KV(T("condition"), Str("cancel")),
                                                                    KV(T("targetNodeId"), Str("node_cancel"))>>)>>))>>),
                                 JObj(<<KV(T("id"), Str("node_general")),
                                        KV(T("type"), Str("prompt")),
                                        KV(T("name"), Str("General Inquiry")),
                                        KV(T("prompt"), Str("I'm here to answer any questions you might have about our clinic.\n\nWe offer the following services:\n- Primary care consultations\n- Specialist referrals\n- Lab work and diagnostics\n- Prescription refills\n- Telehealth appointments\n\nWhat would you like to know more about?")),
                                        KV(T("conditions"), JArr(<<Str("user has question"),
                                                                   Str("general information")>>)),
                                        KV(T("next"), JArr(<<JObj(<<KV(T("condition"), Str("services")),
                                                                    KV(T("targetNodeId"), Str("node_services"))>>),
                                                             JObj(<<KV(T("condition"), Str("insurance")),
                                                                    KV(T("targetNodeId"), Str("node_insurance"))>>),
                                                             JObj(<<KV(T("condition"), Str("hours")),
                                                                    KV(T("targetNodeId"), Str("node_hours"))>>)>>))>>),
                                 JObj(<<KV(T("id"), Str("node_emergency")),
                                        KV(T("type"), Str("prompt")),
                                        KV(T("name"), Str("Emergency Handler")),
                                        KV(T("prompt"), Str("I understand this may be urgent. If you're experiencing a medical emergency, please hang up and dial 911 immediately.\n\nFor urgent but non-emergency situations, I can help you:\n- Connect with our on-call nurse\n- Find the nearest urgent care facility\n- Schedule a same-day appointment if available\n\nHow would you like to proceed?")),
                                        KV(T("conditions"), JArr(<<Str("emergency"),
                                                                   Str("urgent"),
                                                                   Str("immediate help")>>)),
                                        KV(T("next"), JArr(<<JObj(<<KV(T("condition"), Str("transfer_nurse")),
                                                                    KV(T("targetNodeId"), Str("node_transfer"))>>),
                                                             JObj(<<KV(T("condition"), Str("urgent_care")),
                                                                    KV(T("targetNodeId"), Str("node_urgent_care"))>>)>>))>>),
                                 JObj(<<KV(T("id"), Str("node_confirm")),
                                        KV(T("type"), Str("prompt")),
                                        KV(T("name"), Str("Confirmation")),
                                        KV(T("prompt"), Str("Great! I've booked your appointment. Here are the details:\n\n[Appointment Summary]\n\nYou'll receive a confirmation text and email shortly. Is there anything else I can help you with today?")),
                                        KV(T("conditions"), JArr(<<Str("booking confirmed")>>)),
                                        KV(T("next"), JArr(<<JObj(<<KV(T("condition"), Str("more_help")),
                                                                    KV(T("targetNodeId"), Str("node_general"))>>),
                                                             JObj(<<KV(T("condition"), Str("done")),
                                                                    KV(T("targetNodeId"), Str("node_end"))>>)>>))>>),
                                 JObj(<<KV(T("id"), Str("node_services")),
                                        KV(T("type"), Str("prompt")),
                                        KV(T("name"), Str("Services Info")),
                                        KV(T("prompt"), Str("Our clinic offers comprehensive healthcare services including:\n\n**Primary Care:**\n- Annual physicals\n- Preventive screenings\n- Chronic disease management\n\n**Specialty Care:**\n- Cardiology consultations\n- Dermatology\n- Women's health\n\n**Diagnostics:**\n- On-site lab work\n- X-ray and imaging\n- Same-day results for most tests\n\nWould you like me to help you schedule an appointment for any of these services?")),
                                        KV(T("conditions"), JArr(<<Str("services"),
                                                                   Str("what do you offer")>>)),
                                        KV(T("next"), JArr(<<JObj(<<KV(T("condition"), Str("book")),
                                                                    KV(T("targetNodeId"), Str("node_booking"))>>),
                                                             JObj(<<KV(T("condition"), Str("more_info")),
                                                                    KV(T("targetNodeId"), Str("node_general"))>>)>>))>>),
                                 JObj(<<KV(T("id"), Str("node_insurance")),
                                        KV(T("type"), Str("prompt")),
                                        KV(T("name"), Str("Insurance Information")),
                                        KV(T("prompt"), Str("We accept most major insurance plans including:\n\n- Blue Cross Blue Shield\n- Aetna\n- Cigna\n- UnitedHealthcare\n- Medicare and Medicaid\n\nIf you're unsure about your coverage, I can transfer you to our billing department who can verify your benefits. Would you like me to do that?")),
                                        KV(T("conditions"), JArr(<<Str("insurance"),
                                                                   Str("coverage"),
                                                                   Str("payment")>>)),
                                        KV(T("next"), JArr(<<JObj(<<KV(T("condition"), Str("transfer_billing")),
                                                                    KV(T("targetNodeId"), Str("node_transfer"))>>),
                                                             JObj(<<KV(T("condition"), Str("continue")),
                                                                    KV(T("targetNodeId"), Str("node_general"))>>)>>))>>),
                                 JObj(<<KV(T("id"), Str("node_hours")),
                                        KV(T("type"), Str("prompt")),
                                        KV(T("name"), Str("Operating Hours")),
                                        KV(T("prompt"), Str("Our clinic hours are:\n\n**Monday - Friday:** 8:00 AM - 6:00 PM\n**Saturday:** 9:00 AM - 2:00 PM\n**Sunday:** Closed\n\nWe also offer 24/7 telehealth appointments for established patients. Would you like to schedule a visit?")),
                                        KV(T("conditions"), JArr(<<Str("hours"),
                                                                   Str("when open"),
                                                                   Str("schedule")>>)),
                                        KV(T("next"), JArr(<<JObj(<<KV(T("condition"), Str("book")),
                                                                    KV(T("targetNodeId"), Str("node_booking"))>>),
                                                             JObj(<<KV(T("condition"), Str("other")),
                                                                    KV(T("targetNodeId"), Str("node_general"))>>)>>))>>),
                                 JObj(<<KV(T("id"), Str("node_transfer")),
                                        KV(T("type"), Str("prompt")),
                                        KV(T("name"), Str("Transfer Call")),
                                        KV(T("prompt"), Str("I'll transfer you now. Please hold for a moment while I connect you. Thank you for your patience.")),
                                        KV(T("conditions"), JArr(<<Str("transfer requested")>>)),
                                        KV(T("next"), JArr(<<JObj(<<KV(T("condition"), Str("complete")),
                                                                    KV(T("targetNodeId"), Str("node_end"))>>)>>))>>),
                                 JObj(<<KV(T("id"), Str("node_end")),
                                        KV(T("type"), Str("end")),
                                        KV(T("name"), Str("Goodbye")),
                                        KV(T("prompt"), Str("Thank you for calling HealthFirst Clinic! Have a wonderful day, and we look forward to seeing you soon. Goodbye!")),
                                        KV(T("conditions"), JArr(<<>>)),
                                        KV(T("next"), JArr(<<>>))>>)>>))>>)

Docs ==
    TopLevelDocs \cup AgentIdDocs \cup AgentNameDocs \cup DescriptionDocs \cup GlobalPromptDocs
    \cup NodeSourceDocs \cup NodeIdDocs \cup NodeNameDocs \cup NodeTypeDocs \cup NodePromptDocs
    \cup OddNodeDocs \cup EdgeTargetDocs \cup EdgeConditionDocs \cup AggregationDocs
    \cup NamedSettingsDocs \cup LegacySettingsDocs \cup DurationDocs \cup ToolDocs
    \cup AnalysisDocs \cup ShapeDocs \cup LabelDocs \cup NameDocs \cup PromptValueDocs
    \cup SeparatorDocs \cup {FlowDoc, demoAgentJson}

\* The texts parseAgent is applied to
Inputs == {BlankText, InvalidText} \cup {TextOf(v) : v \in Docs}

\* The texts a user types into the page
PageInputs ==
    {BlankText, InvalidText}
    \cup {TextOf(v) : v \in {JNull, FlowDoc, OneNode(IdNode("n-1")),
                             OneNode(Obj(<<KV(K.id, JNum(7))>>))}}

\* The most random tokens drawn for one input
MaxNodes == 2

\* What Math.random().toString(36).substr(2, 9) can yield
RandomTokens == {T("k3x9q0zab"), T("7")}

----------------------------------------------------------------------------
(* The page: state of the Index component *)

VARIABLES
    jsonInput,      \* the text of the JSON field
    parsed,         \* ParsedAgent | null
    markdown,       \* the Markdown text shown
    mermaidCode,    \* the diagram text handed to MermaidPreview
    error,          \* string | null
    isLoading,
    pc,             \* position inside handleGenerate
    parsedAgent,    \* the completion of parseAgent(jsonInput), while at "render"
    mermaidSvg,     \* the markup MermaidPreview rendered last
    download,       \* the completion of the last handleDownloadHtml of a document
    renders,        \* MermaidPreview: the diagram texts of the mermaid.render calls pending
    container,      \* MermaidPreview: innerHTML of containerRef.current, undefined without it
    previewError    \* MermaidPreview: its error state, string | null

vars ==
    <<jsonInput, parsed, markdown, mermaidCode, error, isLoading, pc, parsedAgent, mermaidSvg,
      download, renders, container, previewError>>

\* The state of MermaidPreview
preview == <<renders, container, previewError>>

\* What mermaid.render can hand to onSvgReady
SvgMarkups == {T("<svg id=\"mermaid-1\"><g></g></svg>"), T("<svg></svg>")}

ErrPaste == Str("Please paste JSON first.")
ErrInvalid == Str("Invalid JSON, please check your export.")
\* `Error parsing agent: ${err.message}`; the message of an engine error is
\* kept as one element naming the error's kind.
ErrParsing(err) == JStr(T("Error parsing agent: ") \o <<err.thrown>>)

InitPage ==
    /\ parsed = JNull
    /\ markdown = <<>>
    /\ mermaidCode = <<>>
    /\ error = JNull
    /\ isLoading = FALSE
    /\ pc = "idle"
    /\ parsedAgent = Undef
    /\ download = Undef
    /\ renders = <<>>
    /\ container = Undef
    /\ previewError = JNull

Init == jsonInput = BlankText /\ mermaidSvg = JStr(<<>>) /\ InitPage

\* onChange of the JSON field
setJsonInput ==
    /\ pc = "idle"
    /\ jsonInput' \in PageInputs
    /\ UNCHANGED <<parsed, markdown, mermaidCode, error, isLoading, pc, parsedAgent, mermaidSvg,
                   download, preview>>

\* The most calls of mermaid.render pending at a time
MaxRenders == 2

\* handleGenerate with the outputs cleared for a blank input
handleGenerateClearing ==
    /\ pc = "idle"
    /\ IF jsonInput.kind = "blank"
       THEN /\ error' = ErrPaste
            /\ parsed' = JNull
            /\ markdown' = <<>>
            /\ mermaidCode' = <<>>
            /\ UNCHANGED <<isLoading, pc>>
       ELSE /\ Len(renders) < MaxRenders
            /\ error' = JNull
            /\ isLoading' = TRUE
            /\ pc' = "parse"
            /\ UNCHANGED <<parsed, markdown, mermaidCode>>
    /\ UNCHANGED <<jsonInput, parsedAgent, mermaidSvg, download, preview>>

\* handleGenerate up to the try block
handleGenerate ==
    /\ pc = "idle"
    /\ IF jsonInput.kind = "blank"
       THEN /\ error' = ErrPaste
            /\ UNCHANGED <<isLoading, pc>>
       ELSE /\ Len(renders) < MaxRenders
            /\ error' = JNull
            /\ isLoading' = TRUE
            /\ pc' = "parse"
    /\ UNCHANGED <<jsonInput, parsed, markdown, mermaidCode, parsedAgent, mermaidSvg, download,
                   preview>>

\* const parsedAgent = parseAgent(jsonInput)
callParseAgent ==
    /\ pc = "parse"
    /\ randomDraws(jsonInput) <= MaxNodes
    /\ \E rnd \in [1..randomDraws(jsonInput) -> RandomTokens] :
          parsedAgent' = parseAgent(jsonInput, rnd)
    /\ pc' = "render"
    /\ UNCHANGED <<jsonInput, parsed, markdown, mermaidCode, error, isLoading, mermaidSvg,
                   download, preview>>

\* The catch block without setMarkdown('') and setMermaidCode('')
catchKeepingTexts(err) ==
    /\ error' = IF err = SyntaxError THEN ErrInvalid ELSE ErrParsing(err)
    /\ parsed' = JNull
    /\ UNCHANGED <<markdown, mermaidCode>>

\* The catch block of handleGenerate
catch(err) ==
    /\ error' = IF err = SyntaxError THEN ErrInvalid ELSE ErrParsing(err)
    /\ parsed' = JNull
    /\ markdown' = <<>>
    /\ mermaidCode' = <<>>

\* setParsed, setMarkdown and setMermaidCode of the try block, given the
\* completions of the two generators
setOutputs(doc, md, mm) ==
    IF Threw(md) THEN catch(md)
    ELSE IF Threw(mm) THEN catch(mm)
    ELSE /\ parsed' = doc
         /\ markdown' = md.value
         /\ mermaidCode' = mm.value
         /\ UNCHANGED error

\* The try block after parseAgent, given its completion
tryGenerate(c) ==
    IF Threw(c) THEN catch(c)
    ELSE setOutputs(c.value, generateMarkdown(c.value), generateMermaid(c.value))

ErrRender == Str("Failed to render diagram")

\* The svg mermaid.render resolves with for a diagram text: the markup of
\* that text
renderedSvg(code) == T("<svg>") \o code \o T("</svg>")

\* The effect of MermaidPreview on [code, onSvgReady], run after the page is
\* rendered with a new code (onSvgReady never changes).  The container div is
\* in the page when there is no error and the code is not empty; it keeps
\* its content while it stays in the page.  renderDiagram returns at once
\* without the container or the code, and calls mermaid.render otherwise.
renderDiagram(code) ==
    IF code = mermaidCode THEN UNCHANGED <<renders, container>>
    ELSE IF previewError = JNull /\ code # <<>>
    THEN /\ container' = IF container = Undef THEN JStr(<<>>) ELSE container
         /\ renders' = Append(renders, code)
    ELSE /\ container' = Undef
         /\ UNCHANGED renders

\* The rest of the try block, the catch and the finally of handleGenerate,
\* and the effect of the preview on the new code
finishGenerate ==
    /\ pc = "render"
    /\ tryGenerate(parsedAgent)
    /\ isLoading' = FALSE
    /\ pc' = "idle"
    /\ parsedAgent' = Undef
    /\ renderDiagram(mermaidCode')
    /\ UNCHANGED <<jsonInput, mermaidSvg, download, previewError>>

\* handleMermaidSvgReady(svg)
handleMermaidSvgReady(svg) == mermaidSvg' = JStr(svg)

\* The calls pending other than the i-th
Others(s, i) == SubSeq(s, 1, i - 1) \o SubSeq(s, i + 1, Len(s))

\* renderDiagram after `await mermaid.render(id, code)` resolved, for any of
\* the calls pending: the svg goes into the container and to onSvgReady;
\* without the container the assignment throws and the catch sets the error
renderResolved ==
    /\ pc = "idle"
    /\ \E i \in 1..Len(renders) :
          /\ renders' = Others(renders, i)
          /\ IF container = Undef
             THEN /\ previewError' = ErrRender
                  /\ UNCHANGED <<container, mermaidSvg>>
             ELSE /\ container' = JStr(renderedSvg(renders[i]))
                  /\ handleMermaidSvgReady(renderedSvg(renders[i]))
                  /\ UNCHANGED previewError
    /\ UNCHANGED <<jsonInput, parsed, markdown, mermaidCode, error, isLoading, pc, parsedAgent,
                   download>>

\* renderDiagram after mermaid.render rejected: the catch sets the error, and
\* the page shows the message in place of the container
renderRejected ==
    /\ pc = "idle"
    /\ \E i \in 1..Len(renders) : renders' = Others(renders, i)
    /\ previewError' = ErrRender
    /\ container' = Undef
    /\ UNCHANGED <<jsonInput, parsed, markdown, mermaidCode, error, isLoading, pc, parsedAgent,
                   mermaidSvg, download>>

\* handleDownloadHtml: nothing without a document
handleDownloadHtml ==
    /\ pc = "idle"
    /\ IF parsed = JNull
       THEN UNCHANGED download
       ELSE download' = htmlFile(generateHtml(parsed, mermaidSvg), parsed.name)
    /\ UNCHANGED <<jsonInput, parsed, markdown, mermaidCode, error, isLoading, pc, parsedAgent,
                   mermaidSvg, preview>>

Next ==
    \/ setJsonInput
    \/ handleGenerate
    \/ callParseAgent
    \/ finishGenerate
    \/ renderResolved
    \/ renderRejected
    \/ handleDownloadHtml

Spec == Init /\ [][Next]_vars

\* parseAgent and the generators as functions of the text: every input is
\* pasted once and generated from.
InitParse == jsonInput \in Inputs /\ mermaidSvg = JStr(<<>>) /\ InitPage

NextParse == handleGenerate \/ callParseAgent \/ finishGenerate

SpecParse == InitParse /\ [][NextParse]_vars

\* The texts a page is downloaded for
HtmlInputs ==
    {TextOf(v) : v \in TopLevelDocs \cup DescriptionDocs \cup GlobalPromptDocs
                        \cup OddNodeDocs \cup LegacySettingsDocs
                        \cup ToolDocs \cup AnalysisDocs \cup NameDocs \cup PromptValueDocs
                        \cup {FlowDoc, OneNode(Obj(<<KV(K.id, JNum(7))>>))}}

\* The second argument of generateHtml: left out, empty as the page has it
\* before the preview has rendered, or a rendered markup
SvgArguments == {Undef, JStr(<<>>)} \cup {JStr(svg) : svg \in SvgMarkups}

\* generateHtml as a function of the text and of its optional argument: both
\* are drawn at the start, the text is generated from and the page is
\* downloaded.
InitHtml == jsonInput \in HtmlInputs /\ mermaidSvg \in SvgArguments /\ InitPage

NextHtml == handleGenerate \/ callParseAgent \/ finishGenerate \/ handleDownloadHtml

SpecHtml == InitHtml /\ [][NextHtml]_vars

----------------------------------------------------------------------------
(* Properties: what they are stated over *)

\* parseAgent has just been applied to jsonInput, and returned
Returned == pc = "render" /\ ~Threw(parsedAgent)

\* The value the pasted text denotes, and the document parseAgent returned
InputJson == jsonInput.value
Doc == parsedAgent.value

RECURSIVE PathGet(_, _)
\* The value at a path of property names, undefined when a step is missing
PathGet(v, path) ==
    IF Len(path) = 0 THEN v
    ELSE IF Nullish(v) THEN Undef
    ELSE PathGet(Get(v, path[1]), Tail(path))

\* The candidates of a chain: the values at its paths, in order
Candidates(v, paths) == [i \in 1..Len(paths) |-> PathGet(v, paths[i])]

Defined(v) == ~Nullish(v)

\* A non-empty value: a string or a list with something in it
NonEmpty(v) == (v.t = "str" /\ Len(v.s) > 0) \/ (v.t = "arr" /\ Len(v.a) > 0)

\* The ways a candidate can count as holding a value
Holds(how, v) ==
    CASE how = "defined" -> Defined(v)
      [] how = "truthy" -> Truthy(v)
      [] how = "non-empty" -> NonEmpty(v)

\* The first candidate that holds a value, the default when none does
First(cands, default, how) ==
    IF \E i \in 1..Len(cands) : Holds(how, cands[i])
    THEN cands[CHOOSE i \in 1..Len(cands) :
                    Holds(how, cands[i]) /\ \A j \in 1..(i - 1) : ~Holds(how, cands[j])]
    ELSE default

\* The fallback chains of the canonical fields, as documented
AgentChains ==
    {[field |-> "id", paths |-> <<<<K.agent_id>>, <<K.id>>, <<K.agentId>>>>,
      default |-> JStr(L.unknown)],
     [field |-> "name", paths |-> <<<<K.agent_name>>, <<K.name>>, <<K.agentName>>>>,
      default |-> JStr(L.UnnamedAgent)],
     [field |-> "description",
      paths |-> <<<<K.description>>, <<K.version_title>>, <<K.desc>>>>,
      default |-> JStr(<<>>)],
     [field |-> "globalPrompt",
      paths |-> <<<<K.conversationFlow, K.global_prompt>>, <<K.global_prompt>>>>,
      default |-> JStr(<<>>)]}

NodeIdPaths == <<<<K.id>>, <<K.node_id>>, <<K.nodeId>>>>

NodeChains ==
    {[field |-> "name", paths |-> <<<<K.name>>, <<K.label>>, <<K.title>>>>,
      default |-> JStr(L.UnnamedNode)],
     [field |-> "type", paths |-> <<<<K.type>>, <<K.node_type>>, <<K.nodeType>>>>,
      default |-> JStr(L.unknown)],
     [field |-> "prompt",
      paths |-> <<<<K.instruction, K.text>>, <<K.prompt>>, <<K.instructions>>, <<K.content>>>>,
      default |-> JStr(<<>>)]}

EdgeTargetPaths ==
    <<<<K.destination_node_id>>, <<K.targetNodeId>>, <<K.target>>, <<K.next_node>>>>
EdgeConditionPaths == <<<<K.transition_condition, K.prompt>>, <<K.condition>>, <<K.label>>>>

\* The identifiers a node without one can be given
RandomIds == {JStr(L.node_ \o t) : t \in RandomTokens}

NodeListPaths ==
    <<<<K.conversationFlow, K.nodes>>, <<K.nodes>>, <<K.flow, K.nodes>>, <<K.steps>>>>

\* The raw nodes of the input: the first truthy candidate of the node list,
\* when it is an array
RawNodeList ==
    LET list == First(Candidates(InputJson, NodeListPaths), JArr(<<>>), "truthy")
    IN  IF list.t = "arr" THEN list.a ELSE <<>>

\* The edges that the entries of an `edges` array yield, when a chain
\* resolves to its first candidate that holds a value: one per entry with a
\* usable target
GenericEdges(entries, how) ==
    Flatten([i \in 1..Len(entries) |->
        LET target == First(Candidates(entries[i], EdgeTargetPaths), JStr(<<>>), how)
            condition == First(Candidates(entries[i], EdgeConditionPaths), JStr(L.default), how)
        IN  IF Truthy(target) THEN <<Edge(condition, target)>> ELSE <<>>])

\* A node whose only source of edges is an `edges` array
OnlyGenericEdges(node) ==
    /\ Get(node, K.edges).t = "arr"
    /\ Get(node, K.else_edge).t = "undef"
    /\ Get(node, K.skip_response_edge).t = "undef"
    /\ Get(node, K.next).t = "undef"

\* Every chain-resolved field of the returned document is the first
\* candidate of its chain that holds a value, or the chain's default
ChainsResolve(how) ==
    Returned =>
        /\ \A c \in AgentChains :
              Doc[c.field] = First(Candidates(InputJson, c.paths), c.default, how)
        /\ \A i \in 1..Len(RawNodeList) :
              /\ \A c \in NodeChains :
                    Doc.nodes[i][c.field]
                        = First(Candidates(RawNodeList[i], c.paths), c.default, how)
              /\ IF \E k \in 1..Len(NodeIdPaths) : Holds(how, PathGet(RawNodeList[i], NodeIdPaths[k]))
                 THEN Doc.nodes[i].id
                        = First(Candidates(RawNodeList[i], NodeIdPaths), Undef, how)
                 ELSE Doc.nodes[i].id \in RandomIds
              /\ OnlyGenericEdges(RawNodeList[i]) =>
                    Doc.nodes[i].next = GenericEdges(Get(RawNodeList[i], K.edges).a, how)

----------------------------------------------------------------------------
(* C1 *)

\* C1: parseAgent is total over syntactically valid JSON: for every text
\* that JSON.parse accepts, whatever its top-level value and whatever the
\* types of the probed fields, parseAgent returns a document and does not
\* throw.
C1_TotalOnValidJson == (pc = "render" /\ jsonInput.kind = "json") => ~Threw(parsedAgent)

----------------------------------------------------------------------------
(* C2 *)

\* C2: a text that is not valid JSON makes parseAgent fail with a
\* SyntaxError, and handleGenerate then shows the invalid-JSON message and
\* resets parsed, markdown and mermaidCode; and every failure of parseAgent
\* is of that kind, so that a failure of parseAgent never ends in the generic
\* "Error parsing agent" message.
C2_OnlyMalformedInputFails ==
    [][(pc = "render" /\ pc' = "idle") =>
            /\ jsonInput.kind # "json" =>
                    /\ parsedAgent = SyntaxError
                    /\ error' = ErrInvalid
                    /\ parsed' = JNull /\ markdown' = <<>> /\ mermaidCode' = <<>>
            /\ Threw(parsedAgent) => error' = ErrInvalid]_vars

----------------------------------------------------------------------------
(* C3 *)

\* C3 as claimed: every chain-resolved field (agent id, name, description,
\* globalPrompt, node id, name, type, prompt, edge target and condition) is
\* the first candidate, left to right, that is defined and not null - an
\* empty string, 0 and false included - and the default only when there is
\* no such candidate.
C3_FirstDefinedWins == ChainsResolve("defined")

\* C3 as amended: every chain-resolved field is the first candidate, left to
\* right, whose value is truthy, and the default when no candidate is
\* truthy: a candidate that is undefined, null, "", 0 or false is passed
\* over.
C3_FirstTruthyWins == ChainsResolve("truthy")

\* A falsy candidate was passed over for a later one, and a chain with only
\* falsy candidates fell to its default.
C3_Witness ==
    /\ Returned
    /\ InputJson.t = "obj"
    /\ \/ /\ Get(InputJson, K.agent_id) = JStr(<<>>)
          /\ Truthy(Get(InputJson, K.id))
          /\ Doc.id = Get(InputJson, K.id)
       \/ /\ Get(InputJson, K.agent_name) = JNum(0)
          /\ Get(InputJson, K.name) = JBool(FALSE)
          /\ Get(InputJson, K.agentName).t = "undef"
          /\ Doc.name = JStr(L.UnnamedAgent)

----------------------------------------------------------------------------
(* C4 *)

\* The chains whose precedence is documented, with the value found for each
PrecedenceChains ==
    {[paths |-> <<<<K.agent_id>>, <<K.id>>, <<K.agentId>>>>, of |-> "id"],
     [paths |-> <<<<K.agent_name>>, <<K.name>>, <<K.agentName>>>>, of |-> "name"]}

NodePromptPaths ==
    <<<<K.instruction, K.text>>, <<K.prompt>>, <<K.instructions>>, <<K.content>>>>

\* Several candidates hold a value
Several(cands, how) ==
    \E i, j \in 1..Len(cands) : i < j /\ Holds(how, cands[i]) /\ Holds(how, cands[j])

\* The returned nodes are those of the raw list: as many, under its ids
NodesAreFrom(list) ==
    /\ list.t = "arr"
    /\ Len(Doc.nodes) = Len(list.a)
    /\ \A i \in 1..Len(list.a) :
          Truthy(Get(list.a[i], K.id)) => Doc.nodes[i].id = Get(list.a[i], K.id)

\* Where several candidates of a chain hold a value, the
\* field is the earliest of them in the documented order
EarliestWins(how) ==
    Returned =>
        /\ \A c \in PrecedenceChains :
              LET cands == Candidates(InputJson, c.paths)
              IN  Several(cands, how) => Doc[c.of] = First(cands, Undef, how)
        /\ LET cands == Candidates(InputJson, NodeListPaths)
           IN  Several(cands, how) => NodesAreFrom(First(cands, Undef, how))
        /\ \A i \in 1..Len(RawNodeList) :
              /\ LET cands == Candidates(RawNodeList[i], NodePromptPaths)
                 IN  Several(cands, how) =>
                        Doc.nodes[i].prompt = First(cands, Undef, how)
              /\ OnlyGenericEdges(RawNodeList[i]) =>
                    LET entries == Get(RawNodeList[i], K.edges).a
                    IN  /\ Len(entries) = 1
                        /\ Several(Candidates(entries[1], EdgeTargetPaths), how)
                        => /\ Len(Doc.nodes[i].next) = 1
                           /\ Doc.nodes[i].next[1].targetNodeId
                                = First(Candidates(entries[1], EdgeTargetPaths), Undef, how)

\* C4 as claimed: when several candidate paths of a field hold non-empty
\* values, parseAgent takes the earliest in the documented order: agent id
\* from agent_id, id, agentId; name from agent_name, name, agentName; the
\* node list from conversationFlow.nodes, nodes, flow.nodes, steps; the node
\* prompt from instruction.text, prompt, instructions, content; the target
\* of a generic edge from destination_node_id, targetNodeId, target,
\* next_node.
C4_EarliestNonEmptyWins == EarliestWins("non-empty")

\* C4 as amended: when several candidate paths of a field hold truthy
\* values, parseAgent takes the earliest of them in the documented order; an
\* empty list is truthy, so an empty conversationFlow.nodes is taken before
\* the non-empty lists of later paths.
C4_EarliestTruthyWins == EarliestWins("truthy")

\* Several candidates of the node list were truthy and the earliest was
\* taken, an empty list in front of two lists with nodes in them.
C4_Witness ==
    /\ Returned
    /\ InputJson.t = "obj"
    /\ PathGet(InputJson, <<K.conversationFlow, K.nodes>>) = JArr(<<>>)
    /\ NonEmpty(Get(InputJson, K.nodes))
    /\ NonEmpty(Get(InputJson, K.steps))
    /\ Doc.nodes = <<>>

----------------------------------------------------------------------------
(* C5 *)

\* The fields of the document that hold a list, with the paths of their source
ListChains ==
    {[field |-> "nodes", paths |-> NodeListPaths],
     [field |-> "tools", paths |-> <<<<K.conversationFlow, K.tools>>, <<K.tools>>>>],
     [field |-> "postCallAnalysis", paths |-> <<<<K.post_call_analysis_data>>>>]}

\* The paths that the settings map is filled from
SettingsPaths ==
    {<<K.conversationFlow, K.model_choice, K.model>>,
     <<K.conversationFlow, K.model_temperature>>, <<K.language>>, <<K.voice_id>>,
     <<K.voice_speed>>, <<K.voice_temperature>>, <<K.responsiveness>>,
     <<K.interruption_sensitivity>>, <<K.ambient_sound>>, <<K.stt_mode>>,
     <<K.max_call_duration_ms>>, <<K.reminder_trigger_ms>>,
     <<K.end_call_after_silence_ms>>, <<K.settings>>}

\* Every path of the set is missing from the value
Lacks(v, paths) == \A q \in paths : PathGet(v, q).t = "undef"

\* The members of a sequence
Members(s) == {s[i] : i \in 1..Len(s)}

\* C5: for the input {}, and for any object that lacks every candidate path
\* of a field, parseAgent returns the field's default: id "unknown", name
\* "Unnamed Agent", description "", globalPrompt "", an empty settings map
\* and empty lists of nodes, tools and postCallAnalysis, never null or
\* undefined.
C5_DefaultsOnAbsence ==
    /\ (pc = "render" /\ jsonInput.kind = "json" /\ InputJson = JObj(<<>>)) => Returned
    /\ (Returned /\ InputJson.t = "obj") =>
          /\ \A c \in AgentChains :
                Lacks(InputJson, Members(c.paths)) => Doc[c.field] = c.default
          /\ \A c \in ListChains :
                Lacks(InputJson, Members(c.paths)) => Doc[c.field] = <<>>
          /\ Lacks(InputJson, SettingsPaths) => Doc.settings = <<>>

\* parseAgent has returned the document of defaults for {}
C5_Witness ==
    /\ Returned
    /\ InputJson = JObj(<<>>)
    /\ Doc.id = JStr(L.unknown) /\ Doc.name = JStr(L.UnnamedAgent)
    /\ Doc.description = JStr(<<>>) /\ Doc.globalPrompt = JStr(<<>>)
    /\ Doc.settings = <<>> /\ Doc.nodes = <<>> /\ Doc.tools = <<>>
    /\ Doc.postCallAnalysis = <<>>

----------------------------------------------------------------------------
(* C6 *)

\* C6: whenever parseAgent returns, the rawJson of its result is the value
\* that JSON.parse gives for the input text, unchanged: no key is added,
\* removed, reordered or normalised.
C6_RawJsonIsTheInput == Returned => Doc.rawJson = InputJson

\* parseAgent has returned for an input with legacy settings, nodes and
\* edges, all of which it reads, and rawJson is that input
C6_Witness ==
    /\ Returned
    /\ InputJson.t = "obj"
    /\ Get(InputJson, K.settings).t = "obj"
    /\ Len(Doc.settings) > 0
    /\ Doc.rawJson = InputJson

----------------------------------------------------------------------------
(* C7 *)

\* The value of a key of a map of settings, undefined when the key is missing
Setting(settings, k) == Get(JObj(settings), k)

\* An object without one of its keys
Without(obj, k) == JObj(SelectSeq(obj.o, LAMBDA e : e.k # k))

\* The settings as the named probes leave them: those of the same input
\* without its legacy settings object
NamedProbesLeft == agentSettings(Without(InputJson, K.settings))

\* C7: for every key of the legacy settings object whose value is neither
\* null nor absent, the returned settings hold the legacy value under that
\* key, even when a named probe had set the key; for every legacy key whose
\* value is null, the returned settings hold under that key what the named
\* probes left there, a value or nothing.
C7_LegacySettingsWin ==
    (Returned /\ InputJson.t = "obj" /\ Get(InputJson, K.settings).t = "obj") =>
        \A i \in 1..Len(Get(InputJson, K.settings).o) :
            LET e == Get(InputJson, K.settings).o[i]
            IN  IF Defined(e.v)
                THEN Setting(Doc.settings, e.k) = e.v
                ELSE Setting(Doc.settings, e.k) = Setting(NamedProbesLeft, e.k)

\* A legacy language has replaced the language a named probe had set, while
\* a null legacy temperature has left the probed temperature in place.
C7_Witness ==
    /\ Returned
    /\ InputJson.t = "obj"
    /\ Get(InputJson, K.settings).t = "obj"
    /\ Get(InputJson, K.language) = Str("en-US")
    /\ Get(Get(InputJson, K.settings), SK.language) = Str("fr")
    /\ Setting(Doc.settings, SK.language) = Str("fr")
    /\ Get(Get(InputJson, K.settings), SK.temperature) = JNull
    /\ PathGet(InputJson, <<K.conversationFlow, K.model_temperature>>) = JNum(1)
    /\ Setting(Doc.settings, SK.temperature) = JNum(1)

----------------------------------------------------------------------------
(* C8 *)

\* The named settings, each with the path of its source field
NamedSources ==
    {[key |-> SK.model, path |-> <<K.conversationFlow, K.model_choice, K.model>>],
     [key |-> SK.temperature, path |-> <<K.conversationFlow, K.model_temperature>>],
     [key |-> SK.language, path |-> <<K.language>>],
     [key |-> SK.voice, path |-> <<K.voice_id>>],
     [key |-> SK.voiceSpeed, path |-> <<K.voice_speed>>],
     [key |-> SK.voiceTemperature, path |-> <<K.voice_temperature>>],
     [key |-> SK.responsiveness, path |-> <<K.responsiveness>>],
     [key |-> SK.interruptionSensitivity, path |-> <<K.interruption_sensitivity>>],
     [key |-> SK.ambientSound, path |-> <<K.ambient_sound>>],
     [key |-> SK.sttMode, path |-> <<K.stt_mode>>],
     [key |-> SK.maxCallDuration, path |-> <<K.max_call_duration_ms>>],
     [key |-> SK.reminderTrigger, path |-> <<K.reminder_trigger_ms>>],
     [key |-> SK.endCallAfterSilence, path |-> <<K.end_call_after_silence_ms>>]}

HasSetting(settings, k) == \E i \in 1..Len(settings) : settings[i].k = k

\* C8: with no legacy settings object, each named key (model, temperature,
\* language, voice, voiceSpeed, voiceTemperature, responsiveness,
\* interruptionSensitivity, ambientSound, sttMode, maxCallDuration,
\* reminderTrigger, endCallAfterSilence) is a key of the returned settings
\* if and only if its source field is present with a defined, non-null
\* value: a value of 0 is inserted, a null source is not.
C8_NamedSettingsIffPresent ==
    (Returned /\ InputJson.t = "obj" /\ Get(InputJson, K.settings).t = "undef") =>
        \A s \in NamedSources :
            HasSetting(Doc.settings, s.key) <=> Defined(PathGet(InputJson, s.path))

----------------------------------------------------------------------------
(* C9 *)

\* The three durations: the field each is read from and the key it is stored under
DurationSources ==
    {[key |-> SK.maxCallDuration, field |-> K.max_call_duration_ms],
     [key |-> SK.reminderTrigger, field |-> K.reminder_trigger_ms],
     [key |-> SK.endCallAfterSilence, field |-> K.end_call_after_silence_ms]}

\* n / d rounded to the nearest integer, a half going up
RoundHalfUp(n, d) == (2 * n + d) \div (2 * d)

\* "<whole>.<tenth> min" for a number of tenths of a minute
TenthsOfMinutes(m) == NatText(m \div 10) \o T(".") \o NatText(m % 10) \o T(" min")

\* The texts a duration of n ms may be stored as, below a minute
ShortDuration(n) ==
    IF n < 1000 THEN NatText(n) \o T("ms") ELSE NatText(RoundHalfUp(n, 1000)) \o T("s")

\* The tenths of a minute that are nearest to n ms: one number, or the two
\* neighbours when n ms lies halfway between them
NearestTenths(n) == {m \in {n \div 6000, n \div 6000 + 1} : 2 * (6000 * m - n) \in -6000..6000}

HalfUpMinutes(n) == {TenthsOfMinutes(RoundHalfUp(n, 6000))}
NearestMinutes(n) == {TenthsOfMinutes(m) : m \in NearestTenths(n)}

\* Every duration given as a positive integer is stored as ShortDuration
\* below a minute and, from a minute on, as the half-up rounding or as one of
\* the nearest tenths
DurationsStoredAs(rounding) ==
    (Returned /\ InputJson.t = "obj" /\ Get(InputJson, K.settings).t = "undef") =>
        \A s \in DurationSources :
            LET v == Get(InputJson, s.field)
            IN  (v.t = "num" /\ v.n > 0) =>
                    /\ Setting(Doc.settings, s.key).t = "str"
                    /\ Setting(Doc.settings, s.key).s
                        \in (IF v.n < 60000 THEN {ShortDuration(v.n)}
                            ELSE IF rounding = "half-up" THEN HalfUpMinutes(v.n)
                            ELSE NearestMinutes(v.n))

\* C9 as claimed: a positive integer n given as max_call_duration_ms,
\* reminder_trigger_ms or end_call_after_silence_ms is stored as "<n>ms"
\* when n < 1000, as "<round(n/1000)>s" when 1000 <= n < 60000, and as
\* "<n/60000 rounded to one decimal> min" when n >= 60000, with 999, 1000,
\* 59999 and 60000 on the stated sides.
C9_DurationRounded == DurationsStoredAs("half-up")

\* C9 as amended: as claimed below a minute; from a minute on the stored
\* text is "<m> min" with m a one-decimal number nearest to n/60000, and when
\* n/60000 lies exactly halfway between two one-decimal numbers (n = 3000
\* mod 6000) m is either of them: 69000 is stored as "1.1 min", 63000 as
\* "1.1 min".
C9_DurationNearest == DurationsStoredAs("nearest")

\* A duration of 69000 ms, halfway between 1.1 and 1.2 minutes, has been
\* stored as "1.1 min"
C9_Witness ==
    /\ Returned
    /\ InputJson.t = "obj"
    /\ Get(InputJson, K.max_call_duration_ms) = JNum(69000)
    /\ Setting(Doc.settings, SK.maxCallDuration) = Str("1.1 min")

----------------------------------------------------------------------------
(* C10 *)

LegacyTargetPaths == <<<<K.targetNodeId>>, <<K.target>>, <<K.next_node>>, <<K.nextNode>>>>
LegacyConditionPaths == <<<<K.condition>>, <<K.label>>, <<K.trigger>>>>

\* One edge for each entry of an `edges` array that has a usable target
FromEdges(node) ==
    IF Get(node, K.edges).t = "arr" THEN GenericEdges(Get(node, K.edges).a, "truthy") ELSE <<>>

\* The edge of a distinguished source, when its destination_node_id is set
FromFixed(node, source, condition) ==
    LET target == PathGet(node, <<source, K.destination_node_id>>)
    IN  IF Truthy(target) THEN <<Edge(JStr(condition), target)>> ELSE <<>>

\* One edge for each entry of a legacy `next` array
FromNext(node) ==
    IF Get(node, K.next).t = "arr"
    THEN [j \in 1..Len(Get(node, K.next).a) |->
            Edge(First(Candidates(Get(node, K.next).a[j], LegacyConditionPaths),
                       JStr(T("default")), "truthy"),
                 First(Candidates(Get(node, K.next).a[j], LegacyTargetPaths),
                       JStr(<<>>), "truthy"))]
    ELSE <<>>

\* C10: the next sequence of every node is the concatenation, in this order,
\* of one edge per entry of `edges` with a usable target, in array order;
\* the else edge with condition "Else" if else_edge.destination_node_id is
\* set; the skip edge with condition "Skip Response" if
\* skip_response_edge.destination_node_id is set; one edge per entry of the
\* legacy `next` array, in array order.  Nothing is deduplicated.
C10_EdgeAggregationOrder ==
    Returned =>
        \A i \in 1..Len(RawNodeList) :
            Doc.nodes[i].next
                = FromEdges(RawNodeList[i])
                  \o FromFixed(RawNodeList[i], K.else_edge, T("Else"))
                  \o FromFixed(RawNodeList[i], K.skip_response_edge, T("Skip Response"))
                  \o FromNext(RawNodeList[i])

\* A node has taken edges from all four sources, in that order, and three of
\* them lead to the same target.
C10_Witness ==
    /\ Returned
    /\ Len(RawNodeList) = 1
    /\ Len(FromEdges(RawNodeList[1])) = 1
    /\ Len(FromNext(RawNodeList[1])) = 1
    /\ Len(Doc.nodes[1].next) = 4
    /\ Doc.nodes[1].next[2].condition = Str("Else")
    /\ Doc.nodes[1].next[3].condition = Str("Skip Response")
    /\ Doc.nodes[1].next[1].targetNodeId = Doc.nodes[1].next[2].targetNodeId
    /\ Doc.nodes[1].next[4].targetNodeId = Doc.nodes[1].next[2].targetNodeId

----------------------------------------------------------------------------
(* Properties of the generated texts: what they are stated over *)

\* handleGenerate has ended with a document on the page: parsed is the
\* document, markdown and mermaidCode are the texts generated from it
Generated == pc = "idle" /\ parsed # JNull

RECURSIVE SplitLines(_)
\* text.split('\n'): the lines left and right of a line break about the
\* middle of the text
SplitLines(text) ==
    IF \A i \in 1..Len(text) : text[i] # NL THEN <<text>>
    ELSE LET mid == (Len(text) + 1) \div 2
             after == {i \in mid..Len(text) : text[i] = NL}
             before == {i \in 1..(mid - 1) : text[i] = NL}
             at == IF after # {} THEN CHOOSE i \in after : \A j \in after : i <= j
                   ELSE CHOOSE i \in before : \A j \in before : j <= i
         IN  SplitLines(SubSeq(text, 1, at - 1)) \o SplitLines(SubSeq(text, at + 1, Len(text)))

\* The positions at which a text occurs in another
Occurrences(text, part) ==
    {i \in 1..(Len(text) - Len(part) + 1) :
        /\ Len(part) = 0 \/ text[i] = part[1]
        /\ SubSeq(text, i, i + Len(part) - 1) = part}

StartsWith(text, part) == Len(part) <= Len(text) /\ SubSeq(text, 1, Len(part)) = part
EndsWith(text, part) ==
    Len(part) <= Len(text) /\ SubSeq(text, Len(text) - Len(part) + 1, Len(text)) = part

\* The edges of a document, node by node, each with its source node
EdgesOfDoc(doc) ==
    Flatten([i \in 1..Len(doc.nodes) |->
                [j \in 1..Len(doc.nodes[i].next) |->
                    [source |-> doc.nodes[i], edge |-> doc.nodes[i].next[j]]]])

\* Those with a target that is not the empty string
RetainedEdges(doc) == SelectSeq(EdgesOfDoc(doc), LAMBDA e : e.edge.targetNodeId # JStr(<<>>))

----------------------------------------------------------------------------
(* C11 *)

\* C11: generateMermaid emits no edge line whose target is the empty
\* string: the diagram has as many edge lines as there are entries, over all
\* nodes' next, whose targetNodeId is not empty, and an entry with an empty
\* targetNodeId (such as parseAgent makes of a legacy next entry without a
\* target) gives no line.
C11_NoEdgeToEmptyTarget ==
    Generated =>
        /\ Cardinality(Occurrences(mermaidCode, T("-->"))) = Len(RetainedEdges(parsed))
        /\ \A line \in Range(SplitLines(mermaidCode)) :
              Occurrences(line, T("-->")) # {} => ~EndsWith(line, T(" "))

\* A diagram has been generated from a node with an edge to a target and an
\* edge without one, and has one edge line
C11_Witness ==
    /\ Generated
    /\ Len(parsed.nodes) = 1
    /\ \E j \in 1..Len(parsed.nodes[1].next) : parsed.nodes[1].next[j].targetNodeId = JStr(<<>>)
    /\ Len(RetainedEdges(parsed)) = 1
    /\ Cardinality(Occurrences(mermaidCode, T("-->"))) = 1

----------------------------------------------------------------------------
(* C12 *)

\* C12: for a document with no nodes generateMermaid returns exactly two
\* lines, the header "graph TD" and the placeholder declaration
\* "  NoNodes[No nodes found]", and no edge line.
C12_PlaceholderForNoNodes ==
    (Generated /\ Len(parsed.nodes) = 0) =>
        SplitLines(mermaidCode) = <<T("graph TD"), T("  NoNodes[No nodes found]")>>

\* A diagram has been generated from a document without nodes
C12_Witness ==
    /\ Generated
    /\ Len(parsed.nodes) = 0
    /\ Len(SplitLines(mermaidCode)) = 2

----------------------------------------------------------------------------
(* C13 *)

\* The identifier a node or a target goes by in the diagram
DiagramId(id) == hyphensToUnderscores(id.s)

\* C13: for a document with n >= 1 nodes, the diagram split on newline is
\* the header line, then exactly n node-declaration lines, the i-th
\* declaring the i-th node, then the edge lines, ordered by the position of
\* their source node and within a node by position in its next; whatever the
\* node names are, whitespace other than the plain space included.
C13_DiagramLineStructure ==
    (Generated /\ Len(parsed.nodes) >= 1) =>
        LET lines == SplitLines(mermaidCode)
            n == Len(parsed.nodes)
            edges == RetainedEdges(parsed)
        IN  /\ Len(lines) = 1 + n + Len(edges)
            /\ lines[1] = T("graph TD")
            /\ \A i \in 1..n :
                  /\ StartsWith(lines[1 + i], T("  ") \o DiagramId(parsed.nodes[i].id))
                  /\ Occurrences(lines[1 + i], T("-->")) = {}
            /\ \A k \in 1..Len(edges) :
                  /\ StartsWith(lines[1 + n + k],
                                T("  ") \o DiagramId(edges[k].source.id) \o T(" -->"))
                  /\ EndsWith(lines[1 + n + k],
                              T(" ") \o DiagramId(edges[k].edge.targetNodeId))

----------------------------------------------------------------------------
(* C14 *)

\* The shape of a node, by the first rule that matches
NodeShape(node) ==
    LET isEnd == node.type = Str("end")
        hasStart == Occurrences(node.id.s, T("start")) # {}
    IN  IF isEnd THEN "terminal"
        ELSE IF hasStart THEN "circle"
        ELSE IF node.type = Str("branch") THEN "diamond"
        ELSE IF node.type = Str("function") THEN "subroutine"
        ELSE "rectangle"

\* The brackets of each shape
ShapeBrackets ==
    [terminal |-> <<T("(["), T("])")>>, circle |-> <<T("(("), T("))")>>,
     diamond |-> <<T("{"), T("}")>>, subroutine |-> <<T("[/"), T("/]")>>,
     rectangle |-> <<T("["), T("]")>>]

\* The declaration of a node: its identifier and its sanitised name inside
\* the brackets of its shape
Declaration(node) ==
    T("  ") \o DiagramId(node.id) \o ShapeBrackets[NodeShape(node)][1]
        \o substring0(stripPunctuation(node.name.s), 25)
        \o ShapeBrackets[NodeShape(node)][2]

\* C14: the shape of a node is selected by the first matching rule: type
\* "end" gives the rounded terminal ([..]) even when the id contains "start";
\* otherwise an id containing "start" gives the circle ((..)) even when the
\* type is "branch" or "function"; otherwise type "branch" gives {..}, type
\* "function" gives [/../], and every other type, "start" with an id without
\* "start" included, gives the rectangle [..].
C14_NodeShapeFirstMatch ==
    (Generated /\ Len(parsed.nodes) >= 1) =>
        StartsWith(mermaidCode,
                   JoinText(<<T("graph TD")>>
                                \o [i \in 1..Len(parsed.nodes) |-> Declaration(parsed.nodes[i])],
                            <<NL>>))

\* A node of type "end" whose id contains "start" has been declared as a
\* terminal
C14_Witness ==
    /\ Generated
    /\ Len(parsed.nodes) = 1
    /\ parsed.nodes[1].type = Str("end")
    /\ parsed.nodes[1].id = Str("start-1")
    /\ mermaidCode = T("graph TD") \o <<NL>> \o T("  start_1([Shape])")

----------------------------------------------------------------------------
(* C15 *)

\* The label of an edge in the diagram
EdgeLabel(condition) ==
    IF condition = Str("default") THEN <<>>
    ELSE IF condition = Str("Else") THEN T("|Else|")
    ELSE T("|") \o substring0(stripPunctuation(condition.s), 15) \o T("|")

EdgeLine(e) ==
    T("  ") \o DiagramId(e.source.id) \o T(" -->") \o EdgeLabel(e.edge.condition) \o T(" ")
        \o DiagramId(e.edge.targetNodeId)

\* C15: an edge whose condition is exactly "default" is drawn as
\* `src --> tgt` without a label; one whose condition is exactly "Else" with
\* the label |Else|; every other condition with a label that is its
\* sanitised text cut to 15 characters.  The condition is compared as it is,
\* case-sensitively and before it is sanitised.
C15_EdgeLabels ==
    (Generated /\ Len(RetainedEdges(parsed)) >= 1) =>
        EndsWith(mermaidCode,
                 <<NL>> \o JoinText([k \in 1..Len(RetainedEdges(parsed)) |->
                                        EdgeLine(RetainedEdges(parsed)[k])],
                                    <<NL>>))

\* An edge with the condition "default!" has been drawn with the label
\* |default|
C15_Witness ==
    /\ Generated
    /\ Len(parsed.nodes) = 1
    /\ Len(parsed.nodes[1].next) = 1
    /\ parsed.nodes[1].next[1].condition = Str("default!")
    /\ EndsWith(mermaidCode, T("  n_1 -->|default| n_2"))

----------------------------------------------------------------------------
(* C16 *)

\* C16: whenever parseAgent has returned a document for a valid JSON input,
\* generateMermaid and generateMarkdown return a text for it, so that
\* handleGenerate ends without an error, and generateHtml returns a page for
\* every document generated from, so that a download of a document with a
\* text for a name completes; dangling edges and probed fields that hold
\* numbers or other values that are not texts included.
C16_GeneratorsTotal ==
    [][/\ (Returned /\ pc' = "idle") => error' = JNull
       /\ (parsed' # JNull /\ download' # Undef /\ parsed'.name.t = "str")
              => ~Threw(download')]_vars

----------------------------------------------------------------------------
(* C17 *)

\* The header of the node-summary table
NodeTableHeader == T("| Node ID | Name | Type | Next Nodes |")

\* The line of the node count
CountLine(doc) == T("Total nodes: ") \o NatText(Len(doc.nodes))

\* C17: for every document the first line of the Markdown text is
\* `# <name>`, and the text holds a line `Total nodes: <k>` of its own with
\* k the number of nodes, directly above the node-summary table (a blank
\* line apart at most); for every number of nodes, zero included.
C17_TitleAndNodeCount ==
    Generated =>
        LET lines == SplitLines(markdown)
        IN  /\ lines[1] = T("# ") \o JsToString(parsed.name)
            /\ \E i \in 1..Len(lines) :
                  /\ lines[i] = CountLine(parsed)
                  /\ Len(parsed.nodes) > 0 =>
                        \/ lines[i + 1] = NodeTableHeader
                        \/ lines[i + 1] = <<>> /\ lines[i + 2] = NodeTableHeader

----------------------------------------------------------------------------
(* C18 *)

\* The heading lines of a Markdown text: the lines that start with "#"
\* outside the fenced blocks
HeadingsOf(lines, fenced) ==
    LET fences == {j \in 1..Len(lines) : StartsWith(lines[j], Fence)}
        inside == [i \in 1..Len(lines) |->
                      fenced # (Cardinality({j \in fences : j < i}) % 2 = 1)]
        marked == [i \in 1..Len(lines) |->
                      [line |-> lines[i],
                       heading |-> /\ i \notin fences
                                   /\ ~inside[i]
                                   /\ StartsWith(lines[i], T("#"))]]
        headings == SelectSeq(marked, LAMBDA m : m.heading)
    IN  [k \in 1..Len(headings) |-> headings[k].line]

\* A value other than the empty text, a list with an element
Present(v) == v # JStr(<<>>)

\* The nodes that have a prompt, in node order
PromptNodes(doc) == SelectSeq(doc.nodes, LAMBDA node : Present(node.prompt))

\* The headings a document calls for
SectionHeadings(doc) ==
    <<T("# ") \o JsToString(doc.name), T("## Agent Overview")>>
    \o (IF Len(doc.settings) > 0 THEN <<T("### Settings")>> ELSE <<>>)
    \o (IF Present(doc.globalPrompt) THEN <<T("## Global Prompt")>> ELSE <<>>)
    \o <<T("## Conversation Flow Nodes"), T("## Flow Diagram")>>
    \o (IF Len(PromptNodes(doc)) > 0 THEN <<T("## Node Prompts")>> ELSE <<>>)
    \o [i \in 1..Len(PromptNodes(doc)) |-> T("### ") \o JsToString(PromptNodes(doc)[i].name)]
    \o (IF Len(doc.tools) > 0 THEN <<T("## Tools")>> ELSE <<>>)
    \o (IF Len(doc.postCallAnalysis) > 0 THEN <<T("## Post-Call Analysis Fields")>> ELSE <<>>)
    \o <<T("## Raw JSON")>>

\* The row of the description in the overview table
DescriptionRows(lines) ==
    {i \in 1..Len(lines) : StartsWith(lines[i], T("| **Version/Description** | "))}

\* C18: the headings of the Markdown text are, in this order, the title,
\* Agent Overview, Settings, Global Prompt, Conversation Flow Nodes, Flow
\* Diagram, Node Prompts with one subsection per node that has a prompt,
\* Tools, Post-Call Analysis Fields and Raw JSON; Settings is there exactly
\* when settings has an entry, Global Prompt when globalPrompt is not
\* empty, Node Prompts when some node has a prompt that is not empty, Tools
\* and Post-Call Analysis Fields when their lists are not empty, and the
\* description row of the overview when description is not empty; the
\* other sections are always there.
C18_SectionOrderAndGuards ==
    Generated =>
        /\ HeadingsOf(SplitLines(markdown), FALSE) = SectionHeadings(parsed)
        /\ DescriptionRows(SplitLines(markdown)) # {} <=> Present(parsed.description)

\* A flow with a setting, a global prompt, one node with a prompt and one
\* without, and neither tools nor analysis fields has been generated from
C18_Witness ==
    /\ Generated
    /\ jsonInput = TextOf(FlowDoc)
    /\ HeadingsOf(SplitLines(markdown), FALSE)
          = <<T("# Demo Agent"), T("## Agent Overview"), T("### Settings"),
              T("## Global Prompt"), T("## Conversation Flow Nodes"), T("## Flow Diagram"),
              T("## Node Prompts"), T("### Welcome"), T("## Raw JSON")>>
    /\ DescriptionRows(SplitLines(markdown)) = {}

----------------------------------------------------------------------------
(* C19 *)

\* A page has been downloaded for the document shown
Downloaded == Generated /\ download # Undef /\ ~Threw(download)

\* The elements of a list joined with a comma and a space; nothing for a
\* list that is not there
CommaJoined(v) ==
    IF v.t = "arr" THEN JoinText([i \in 1..Len(v.a) |-> JsToString(v.a[i])], T(", "))
    ELSE <<>>

\* Whether a list is taken for the column: when it is there ("present") or
\* when its joined text is not empty ("non-empty")
Taken(v, how) == IF how = "present" THEN Defined(v) ELSE CommaJoined(v) # <<>>

\* The last column of an analysis field
OptionsColumn(field, how) ==
    IF Taken(field.choices, how) THEN CommaJoined(field.choices)
    ELSE IF Taken(field.examples, how) THEN CommaJoined(field.examples)
    ELSE <<EmDash>>

\* The row of a field in the Markdown table, with the given last column
FieldLine(field, column) ==
    T("| ") \o JsToString(field.name) \o T(" | ") \o JsToString(field.type) \o T(" | ")
        \o JsToString(field.description) \o T(" | ") \o column \o T(" |")

\* The last cell of a row of the page, with the given content
LastCell(column) == T("<td>") \o column \o T("</td>") \o <<NL>> \o T("          </tr>")

\* Every analysis field has its row in the Markdown text and in the page,
\* with the last column chosen in the given way
OptionsColumns(how) ==
    \A i \in 1..Len(parsed.postCallAnalysis) :
        /\ FieldLine(parsed.postCallAnalysis[i], OptionsColumn(parsed.postCallAnalysis[i], how))
              \in Range(SplitLines(markdown))
        /\ Occurrences(download.value.html,
                       LastCell(OptionsColumn(parsed.postCallAnalysis[i], how))) # {}

\* C19 (amended): in the Markdown text and in the page, the last column of
\* an analysis field is the comma-joined choices when that text is not
\* empty, otherwise the comma-joined examples when that text is not empty,
\* otherwise an em-dash; a list of choices that is empty is passed over
\* like one that is missing.
C19_OptionsColumnNonEmpty == Downloaded => OptionsColumns("non-empty")

\* C19 as stated: the comma-joined choices whenever choices is there, an
\* empty list included, otherwise the comma-joined examples whenever
\* examples is there, otherwise an em-dash.
C19_OptionsColumnPresent == Downloaded => OptionsColumns("present")

\* A field with an empty list of choices and two examples has been
\* rendered with the examples in its last column
C19_Witness ==
    /\ Downloaded
    /\ Len(parsed.postCallAnalysis) = 1
    /\ parsed.postCallAnalysis[1].choices = JArr(<<>>)
    /\ parsed.postCallAnalysis[1].examples = JArr(<<Str("sad"), Str("other")>>)
    /\ T("| mood | enum |  | sad, other |") \in Range(SplitLines(markdown))
    /\ Occurrences(download.value.html, T("<td>sad, other</td>")) # {}

----------------------------------------------------------------------------
(* C20 *)

\* The diagram container of a page holds exactly the given content
ContainerHolds(html, content) ==
    Occurrences(html, T("<div class=\"mermaid-container\">") \o <<NL>> \o T("      ")
                          \o content \o <<NL>> \o T("    </div>")) # {}

\* The element that wraps the diagram text
PreMermaid == T("<pre class=\"mermaid\">")

\* Whether the second argument counts as supplied: whenever it is there
\* ("defined"), or only when it is a text that is not empty ("non-empty")
Supplied(arg, how) ==
    IF how = "defined" THEN Defined(arg) ELSE Defined(arg) /\ arg # JStr(<<>>)

\* A step that downloads a page puts into the diagram container the markup
\* supplied, and no diagram text, or else the diagram text of the document
\* wrapped in the pre element
ContainerStep(how) ==
    (download' # download /\ ~Threw(download')) =>
        IF Supplied(mermaidSvg, how)
        THEN /\ ContainerHolds(download'.value.html, mermaidSvg.s)
             /\ Occurrences(download'.value.html, PreMermaid) = {}
        ELSE ContainerHolds(download'.value.html, PreMermaid \o mermaidCode \o T("</pre>"))

\* C20 (amended): when a rendered markup that is not empty is supplied to
\* generateHtml, the diagram container holds that markup verbatim and the
\* diagram text is not embedded; when none is supplied, the container holds
\* `<pre class="mermaid">` wrapping exactly generateMermaid(doc).  A
\* supplied empty string, which the page passes until the preview has
\* rendered, counts as not supplied.
C20_ContainerNonEmptyMarkup == [][ContainerStep("non-empty")]_vars

\* C20 as stated: a supplied empty string counts as supplied.
C20_ContainerDefinedMarkup == [][ContainerStep("defined")]_vars

\* A page has been downloaded with the empty string for the markup, and its
\* container holds the diagram text of the document
C20_Witness ==
    /\ Downloaded
    /\ jsonInput = TextOf(FlowDoc)
    /\ mermaidSvg = JStr(<<>>)
    /\ ContainerHolds(download.value.html, PreMermaid \o mermaidCode \o T("</pre>"))

----------------------------------------------------------------------------
(* C21 *)

\* The text of the fenced mermaid block among the lines of a Markdown text
MermaidBlock(lines) ==
    LET from == CHOOSE i \in 1..Len(lines) :
                    /\ lines[i] = Fence \o T("mermaid")
                    /\ \A j \in 1..(i - 1) : lines[j] # Fence \o T("mermaid")
        to == CHOOSE i \in (from + 1)..Len(lines) :
                    /\ lines[i] = Fence
                    /\ \A j \in (from + 1)..(i - 1) : lines[j] # Fence
    IN  JoinText(SubSeq(lines, from + 1, to - 1), <<NL>>)

\* The calls of the generators on the document shown agree: the diagram
\* text inside the Markdown text is the diagram text of the page, and both
\* texts are what the generators return for the document once more
GeneratorsAgree ==
    Generated =>
        /\ MermaidBlock(SplitLines(markdown)) = mermaidCode
        /\ generateMermaid(parsed) = Return(mermaidCode)
        /\ generateMarkdown(parsed) = Return(markdown)

\* A step that ends handleGenerate shows the document parseAgent returned,
\* as it was before the generators were called, and a step that downloads a
\* page leaves the document as it is and saves what generateHtml returns
\* for it once more
GeneratorsKeepDocument ==
    /\ (Returned /\ pc' = "idle" /\ parsed' # JNull) => parsed' = Doc
    /\ (download' # download /\ ~Threw(download')) =>
            /\ parsed' = parsed
            /\ generateHtml(parsed', mermaidSvg') = Return(download'.value.html)

\* C21: two calls of generateMermaid on the same document return the same
\* text, and so do two calls of generateMarkdown and two calls of
\* generateHtml with the same markup; no call changes the document.
C21_GeneratorsDeterministic == []GeneratorsAgree /\ [][GeneratorsKeepDocument]_vars

\* A page has been downloaded for a flow whose Markdown text holds the
\* diagram text of the page
C21_Witness ==
    /\ Downloaded
    /\ jsonInput = TextOf(FlowDoc)
    /\ MermaidBlock(SplitLines(markdown)) = mermaidCode
    /\ Len(SplitLines(mermaidCode)) = 4

----------------------------------------------------------------------------
(* C22 *)

\* Whether a raw node has an identifier: one of id, node_id, nodeId holds a
\* value
HasIdentifier(node, how) ==
    \E i \in 1..Len(NodeIdPaths) : Holds(how, PathGet(node, NodeIdPaths[i]))

\* Two documents of the same input are equal in every field, but for the id
\* of the nodes without an identifier
EqualButRandomIds(a, b, how) ==
    /\ [a EXCEPT !.nodes = <<>>] = [b EXCEPT !.nodes = <<>>]
    /\ Len(a.nodes) = Len(b.nodes)
    /\ \A i \in 1..Len(a.nodes) :
          /\ [a.nodes[i] EXCEPT !.id = Undef] = [b.nodes[i] EXCEPT !.id = Undef]
          /\ HasIdentifier(RawNodeList[i], how) => a.nodes[i].id = b.nodes[i].id

\* When parseAgent returns for a text it has returned a document for
\* before, the two documents are equal but for the random ids
SecondParseAgrees(how) ==
    (pc = "parse" /\ parsed # JNull /\ ~Threw(parsedAgent')) =>
        EqualButRandomIds(parsed, parsedAgent'.value, how)

\* C22 (amended): two calls of parseAgent on the same text return documents
\* that are equal in every field except the id of the nodes none of whose
\* id, node_id, nodeId is truthy; when every node carries a truthy
\* identifier the documents are equal in full, and name, type, prompt,
\* conditions and next of a node without one are equal across the calls.
C22_EqualButIdsOfNodesWithoutTruthyId == [][SecondParseAgrees("truthy")]_vars

\* C22 as stated: equal in every field except the id of the nodes that
\* have none of id, node_id, nodeId.
C22_EqualButIdsOfNodesWithoutId == [][SecondParseAgrees("defined")]_vars

\* parseAgent has returned a second time for a text with one node without
\* an identifier, with another id and the same name as the first time
C22_Witness ==
    /\ Returned
    /\ parsed # JNull
    /\ Len(RawNodeList) = 1
    /\ ~HasIdentifier(RawNodeList[1], "truthy")
    /\ Doc.nodes[1].id # parsed.nodes[1].id
    /\ Doc.nodes[1].name = parsed.nodes[1].name

\* ---------------------------------------------------------------------------
\* C23: the demo export
\* ---------------------------------------------------------------------------

\* The page has generated the outputs of the demo export
DemoGenerated == Generated /\ jsonInput = TextOf(demoAgentJson)

\* The lines of a diagram that draw an edge
EdgeLinesOf(lines) == {i \in 1..Len(lines) : Occurrences(lines[i], T("-->")) # {}}

\* The demo scenario with k edge lines: the diagram declares the start node
\* as a circle and the end node as a rounded terminal, it has k edge lines,
\* which are the lines of the transitions the export declares, in their
\* order, and the Markdown text has the line `Total nodes: 10`
DemoScenario(k) ==
    LET lines == SplitLines(mermaidCode)
        edges == EdgesOfDoc(parsed)
    IN  /\ Len(parsed.nodes) = 10
        /\ \E i \in 1..Len(lines) : lines[i] = T("  node_start((Welcome))")
        /\ \E i \in 1..Len(lines) : lines[i] = T("  node_end([Goodbye])")
        /\ Cardinality(EdgeLinesOf(lines)) = k
        /\ Len(edges) = k
        /\ \A j \in 1..k : lines[1 + 10 + j] = EdgeLine(edges[j])
        /\ Occurrences(markdown, <<NL>> \o T("Total nodes: 10") \o <<NL>>) # {}

\* C23 (amended): for the document parseAgent returns for the ten-node demo
\* export, the diagram holds the declaration `node_start((Welcome))` of the
\* start node and `node_end([Goodbye])` of the end node and exactly 20 edge
\* lines, one for each transition the export declares, and the Markdown text
\* holds the line `Total nodes: 10`.
C23_DemoScenarioTwentyEdges == DemoGenerated => DemoScenario(20)

\* C23 (as stated): the same with exactly 9 edge lines.
C23_DemoScenarioNineEdges == DemoGenerated => DemoScenario(9)

C23_Witness ==
    /\ DemoGenerated
    /\ Len(EdgesOfDoc(parsed)) = 20
    /\ Cardinality(EdgeLinesOf(SplitLines(mermaidCode))) = 20
    /\ Len(parsed.nodes[10].next) = 0

\* ---------------------------------------------------------------------------
\* C24: the characters of a label
\* ---------------------------------------------------------------------------

\* A text with every character that is neither a word character nor a space
\* removed
WordsAndSpaces(s) == SelectSeq(s, LAMBDA c : IsWordChar(c) \/ c = " ")

\* The label of a node and of a condition, as the claim describes them
NodeLabel(node) == substring0(WordsAndSpaces(node.name.s), 25)
ConditionLabel(condition) ==
    IF condition = Str("default") THEN <<>>
    ELSE IF condition = Str("Else") THEN T("|Else|")
    ELSE T("|") \o substring0(WordsAndSpaces(condition.s), 15) \o T("|")

\* The lines of a diagram whose labels are those
LabelledDeclaration(node) ==
    T("  ") \o DiagramId(node.id) \o ShapeBrackets[NodeShape(node)][1] \o NodeLabel(node)
        \o ShapeBrackets[NodeShape(node)][2]
LabelledEdgeLine(e) ==
    T("  ") \o DiagramId(e.source.id) \o T(" -->") \o ConditionLabel(e.edge.condition)
        \o T(" ") \o DiagramId(e.edge.targetNodeId)

\* C24: in every diagram each node label is the node name with every
\* character that is neither a word character nor a space removed, cut to
\* its first 25 characters, and each edge label other than the fixed `Else`
\* is the condition treated the same way and cut to 15 characters: the
\* diagram is the header, the declarations with those labels and the edge
\* lines with those labels, so no label holds a bracket, a pipe, a quote or
\* other punctuation or exceeds its bound.
C24_LabelsWordsAndSpaces ==
    (Generated /\ Len(parsed.nodes) >= 1) =>
        LET edges == RetainedEdges(parsed)
        IN  mermaidCode =
                JoinText(<<T("graph TD")>>
                         \o [i \in 1..Len(parsed.nodes) |-> LabelledDeclaration(parsed.nodes[i])]
                         \o [j \in 1..Len(edges) |-> LabelledEdgeLine(edges[j])],
                         <<NL>>)

\* ---------------------------------------------------------------------------
\* C25: identifiers in the diagram
\* ---------------------------------------------------------------------------

RECURSIVE Rewritten(_)
\* An id with every hyphen replaced by an underscore and no other change
Rewritten(id) ==
    IF Len(id) = 0 THEN <<>>
    ELSE <<IF Head(id) = "-" THEN "_" ELSE Head(id)>> \o Rewritten(Tail(id))

\* Two ids differ in `-` versus `_` only
SameButSeparator(a, b) ==
    /\ Len(a) = Len(b)
    /\ \A i \in 1..Len(a) : a[i] = b[i] \/ {a[i], b[i]} = {"-", "_"}

\* The declaration of a node and the line of an edge under rewritten
\* identifiers
RewrittenDeclaration(node) ==
    T("  ") \o Rewritten(node.id.s) \o ShapeBrackets[NodeShape(node)][1]
        \o substring0(stripPunctuation(node.name.s), 25)
        \o ShapeBrackets[NodeShape(node)][2]
RewrittenEdgeLine(e) ==
    T("  ") \o Rewritten(e.source.id.s) \o T(" -->") \o EdgeLabel(e.edge.condition) \o T(" ")
        \o Rewritten(e.edge.targetNodeId.s)

\* C25: every node identifier, edge source identifier and edge target
\* identifier of the diagram is the source id with every hyphen replaced by
\* an underscore and nothing else changed; so the line of an edge to an
\* existing node ends with the identifier that node's declaration starts
\* with, and two ids that differ only in `-` versus `_` are emitted as the
\* same identifier.
C25_IdentifiersRewritten ==
    (Generated /\ Len(parsed.nodes) >= 1) =>
        LET nodes == parsed.nodes
            edges == RetainedEdges(parsed)
            declarations == [i \in 1..Len(nodes) |-> RewrittenDeclaration(nodes[i])]
            edgeLines == [j \in 1..Len(edges) |-> RewrittenEdgeLine(edges[j])]
        IN  /\ mermaidCode = JoinText(<<T("graph TD")>> \o declarations \o edgeLines, <<NL>>)
            /\ \A j \in 1..Len(edges) : \A i \in 1..Len(nodes) :
                  edges[j].edge.targetNodeId = nodes[i].id =>
                      \E text \in {Rewritten(nodes[i].id.s)} :
                          /\ EndsWith(edgeLines[j], T(" ") \o text)
                          /\ StartsWith(declarations[i], T("  ") \o text)
            /\ \A i, k \in 1..Len(nodes) :
                  SameButSeparator(nodes[i].id.s, nodes[k].id.s) =>
                      \E text \in {Rewritten(nodes[i].id.s)} :
                          /\ StartsWith(declarations[i], T("  ") \o text)
                          /\ StartsWith(declarations[k], T("  ") \o text)

\* Two nodes whose ids differ in the separator only, one of them with two
\* hyphens, and an edge from each to the other
C25_Witness ==
    /\ Generated
    /\ Len(parsed.nodes) = 2
    /\ parsed.nodes[1].id = Str("a-1-2")
    /\ parsed.nodes[2].id = Str("a_1-2")
    /\ Len(RetainedEdges(parsed)) = 2
    /\ SplitLines(mermaidCode)[2] = T("  a_1_2[One]")
    /\ SplitLines(mermaidCode)[3] = T("  a_1_2[Two]")
    /\ SplitLines(mermaidCode)[4] = T("  a_1_2 --> a_1_2")

\* ---------------------------------------------------------------------------
\* C26: the keys of the settings table
\* ---------------------------------------------------------------------------

\* A key with one space before each capital letter that is not its first
\* character, its first letter capitalised and nothing else changed
Humanized(key) ==
    Flatten([i \in 1..Len(key) |->
                IF i = 1 THEN <<toUpperCase(key[i])>>
                ELSE IF key[i] \in Range(UpperCase) THEN <<" ", key[i]>>
                ELSE <<key[i]>>])

\* The row of a setting in the Markdown text and in the page
MarkdownSettingRow(setting) ==
    T("| **") \o Humanized(setting.k) \o T("** | ") \o JsToString(setting.v) \o T(" |")
HtmlSettingRow(setting) ==
    T("<tr><td><strong>") \o Humanized(setting.k) \o T("</strong></td><td>")
        \o JsToString(setting.v) \o T("</td></tr>")

\* C26: for every settings key, the key displayed by generateMarkdown and by
\* generateHtml is the key with one space inserted before each internal
\* capital letter and with its first letter capitalised, nothing else
\* changed; the displayed key never starts with a space.
C26_SettingsKeyHumanized ==
    Generated =>
        \A i \in 1..Len(parsed.settings) :
            /\ Humanized(parsed.settings[i].k)[1] # " "
            /\ \E j \in 1..Len(SplitLines(markdown)) :
                  SplitLines(markdown)[j] = MarkdownSettingRow(parsed.settings[i])
            /\ Downloaded =>
                  Occurrences(download.value.html, HtmlSettingRow(parsed.settings[i])) # {}

\* ---------------------------------------------------------------------------
\* C27: the outputs of the page
\* ---------------------------------------------------------------------------

\* C27: whenever no handleGenerate call is under way, parsed is null if and
\* only if markdown is empty if and only if mermaidCode is empty; and when
\* parsed is not null, markdown is generateMarkdown(parsed) and mermaidCode
\* is generateMermaid(parsed) of that same document.
C27_OutputsConsistent ==
    pc = "idle" =>
        /\ (parsed = JNull) <=> (markdown = <<>>)
        /\ (markdown = <<>>) <=> (mermaidCode = <<>>)
        /\ parsed # JNull =>
              /\ generateMarkdown(parsed) = Return(markdown)
              /\ generateMermaid(parsed) = Return(mermaidCode)

\* A generation that failed after one that succeeded and was rendered
C27_Witness ==
    /\ pc = "idle"
    /\ error = ErrInvalid
    /\ mermaidSvg # JStr(<<>>)
    /\ parsed = JNull
    /\ markdown = <<>>
    /\ mermaidCode = <<>>

\* ---------------------------------------------------------------------------
\* C28: handleGenerate on a blank input
\* ---------------------------------------------------------------------------

\* C28: a step that changes error while the input is empty or whitespace
\* only (handleGenerate is the one handler that sets it) sets it to
\* 'Please paste JSON first.' and leaves parsed, markdown, mermaidCode,
\* mermaidSvg and isLoading as they are; parseAgent is not called.
C28_BlankInputFrame ==
    [][(jsonInput.kind = "blank" /\ error' # error) =>
          /\ error' = ErrPaste
          /\ UNCHANGED <<parsed, markdown, mermaidCode, mermaidSvg, isLoading>>
          /\ pc' = "idle"
          /\ UNCHANGED parsedAgent]_vars

\* The outputs of an earlier generation beside the message
C28_Witness ==
    /\ pc = "idle"
    /\ jsonInput = BlankText
    /\ error = ErrPaste
    /\ parsed # JNull
    /\ markdown # <<>>
    /\ mermaidSvg = JStr(renderedSvg(mermaidCode))

\* ---------------------------------------------------------------------------
\* C29: the diagram of a downloaded page
\* ---------------------------------------------------------------------------

\* C29: in every state in which handleDownloadHtml or handleDownloadPdf would
\* call generateHtml(parsed, mermaidSvg), mermaidSvg is empty or the svg
\* rendered from generateMermaid(parsed) of that same document, never that
\* of a document generated before.
C29_DiagramOfDocument ==
    (pc = "idle" /\ parsed # JNull) =>
        \/ mermaidSvg = JStr(<<>>)
        \/ /\ ~Threw(generateMermaid(parsed))
           /\ mermaidSvg = JStr(renderedSvg(generateMermaid(parsed).value))

\* ---------------------------------------------------------------------------
\* C30: two renders pending
\* ---------------------------------------------------------------------------

\* C30: once every call of mermaid.render has completed, in whatever order,
\* without an error, the content of the container and the svg passed to
\* onSvgReady last are those of the code the preview has now; the late
\* completion of the render of an earlier code does not overwrite them.
C30_LastRenderWins ==
    (pc = "idle" /\ renders = <<>> /\ mermaidCode # <<>> /\ previewError = JNull) =>
        /\ container = JStr(renderedSvg(mermaidCode))
        /\ mermaidSvg = JStr(renderedSvg(mermaidCode))

====
